---- MODULE Spec2Model ----
(***************************************************************************)
(* Geofenced route broker of KSRTC-HyRO (src/src/routing): the LTRU cache, *)
(* the OSRM client with its circuit breaker, the route validator and the   *)
(* routing engine that drives them.                                        *)
(*                                                                         *)
(* Time is the value of time.time() in whole seconds.  Coordinates are     *)
(* integers, in units of 10^-6 degree, (lat, lon) for stops and polygons   *)
(* and (lon, lat) for route geometry and provider coordinates, as in the   *)
(* source.                                                                 *)
(***************************************************************************)
EXTENDS Integers, Sequences, FiniteSets, TLC

VARIABLES
    now,                \* time.time()
    cache,              \* LTRUCache.cache: key -> (ConfigHash, Value, ExpiryTime)
    order,              \* LTRUCache.order: LRU order, oldest first
    state,              \* OSRMClient.state
    failures,           \* OSRMClient.failures
    last_failure_time,  \* OSRMClient.last_failure_time
    sem,                \* OSRMClient.sem: permits left
    pc,                 \* where the single caller stands
    op,                 \* the operation the last step performed, with its arguments
    ret,                \* what the last completed call returned or raised
    streak,             \* failed upstream calls since the last answered one
    req,                \* get_optimized_route: stops_payload, sorted
    strategies,         \* get_optimized_route: strategies
    idx,                \* position of the strategy loop (from 1)
    last_error,         \* get_optimized_route: last_error
    start_time,         \* get_optimized_route: start_time
    failedAt,           \* cache key -> time its route last failed validation, while within the negative TTL
    nreq,               \* requests received so far
    waiting,            \* callers of get_route blocked on the semaphore
    inflight,           \* callers of get_route inside requests.get
    th,                 \* concurrent callers: where each thread stands, with its locals
    ncalls              \* calls the threads have started

cacheVars  == <<cache, order>>
clientVars == <<state, failures, last_failure_time, sem, streak>>
engineVars == <<req, strategies, idx, last_error, start_time, failedAt, nreq>>
callerVars == <<waiting, inflight, th, ncalls>>
vars == <<now, cache, order, state, failures, last_failure_time, sem, pc, op,
          ret, streak, req, strategies, idx, last_error, start_time, failedAt,
          nreq, waiting, inflight, th, ncalls>>

-----------------------------------------------------------------------------
(* Program constants *)

default_ttl       == 300   \* LTRUCache.__init__(default_ttl=300)
NEGATIVE_TTL      == 30    \* engine: cache.set(..., ttl=30)
failure_threshold == 3     \* OSRMClient.__init__(failure_threshold=3)
cooldown          == 30    \* OSRMClient.__init__(cooldown=30)
SemPermits        == 20    \* threading.Semaphore(20)

STATE_CLOSED    == "CLOSED"
STATE_OPEN      == "OPEN"
STATE_HALF_OPEN == "HALF_OPEN"

(* Bounds of the model *)

Capacity    == 2     \* LTRUCache capacity of the modelled instance
MaxFailures == 4     \* no failure is recorded beyond this count
MaxRequests == 2     \* requests the engine receives in one behaviour
MaxStops    == 3     \* stops in a list given to the preparation on its own
MaxCallers  == 22    \* callers inside get_route at once, counted
MaxThreads  == 2     \* threads followed statement by statement
MaxCalls    == 5     \* calls the threads start in one behaviour
MaxVertices == 4     \* vertices of a polygon given to point_in_polygon on its own
MaxPool     == 3     \* stops in the pool given to enrich_route_economically
MaxAdditions == 2    \* largest max_additions given to enrich_route_economically

\* The instants at which the clock is read: a period of 30 s (cooldown,
\* negative TTL) exactly over and more than over, and the default TTL of
\* entries stored at 0 (over) and at 30 (exactly over).
TimePoints == {0, 30, 60, 330}

\* Python's None, and an exception raised with a message; a message is a
\* sequence of strings, the pieces the f-string joins
None == [kind |-> "none"]
Raised(msg) == [kind |-> "raise", msg |-> msg]

-----------------------------------------------------------------------------
(* LTRUCache (src/src/routing/cache.py) *)

\* list.remove(x): drops the first occurrence of x
RECURSIVE ListRemove(_, _)
ListRemove(s, x) ==
    IF s = <<>> THEN <<>>
    ELSE IF Head(s) = x THEN Tail(s)
    ELSE <<Head(s)>> \o ListRemove(Tail(s), x)

InList(s, x) == \E i \in 1..Len(s) : s[i] = x

\* del d[k]
DictDel(d, k) == [x \in (DOMAIN d) \ {k} |-> d[x]]

\* d[k] = v
DictPut(d, k, v) == [x \in (DOMAIN d) \cup {k} |-> IF x = k THEN v ELSE d[x]]

\* _remove as it would be if it left the recency list alone
CacheRemove_KeepsOrder(c, key) ==
    [cache |-> IF key \in DOMAIN c.cache THEN DictDel(c.cache, key) ELSE c.cache,
     order |-> c.order]

\* LTRUCache._remove; c is the pair [cache, order]
CacheRemove(c, key) ==
    [cache |-> IF key \in DOMAIN c.cache THEN DictDel(c.cache, key) ELSE c.cache,
     order |-> IF InList(c.order, key) THEN ListRemove(c.order, key) ELSE c.order]

\* get as it would be if a hit left the entry's place in the order alone
CacheGet_NoRefresh(c, key, config_hash, t) ==
    IF key \in DOMAIN c.cache
    THEN LET e == c.cache[key] IN
         IF t > e.expiry \/ e.hash # config_hash
         THEN [c |-> CacheRemove(c, key), ret |-> None]
         ELSE [c |-> c, ret |-> e.value]
    ELSE [c |-> c, ret |-> None]

\* get as it would be with the expiry test written >= (an entry dies at its
\* expiry instant)
CacheGet_StrictExpiry(c, key, config_hash, t) ==
    IF key \in DOMAIN c.cache
    THEN LET e == c.cache[key] IN
         IF t >= e.expiry \/ e.hash # config_hash
         THEN [c |-> CacheRemove(c, key), ret |-> None]
         ELSE [c |-> [cache |-> c.cache,
                      order |-> Append(ListRemove(c.order, key), key)],
               ret |-> e.value]
    ELSE [c |-> c, ret |-> None]

\* get as it would be without the config-hash test
CacheGet_IgnoresHash(c, key, config_hash, t) ==
    IF key \in DOMAIN c.cache
    THEN LET e == c.cache[key] IN
         IF t > e.expiry
         THEN [c |-> CacheRemove(c, key), ret |-> None]
         ELSE [c |-> [cache |-> c.cache,
                      order |-> Append(ListRemove(c.order, key), key)],
               ret |-> e.value]
    ELSE [c |-> c, ret |-> None]

\* LTRUCache.get at time t: the cache afterwards and the value returned
CacheGet(c, key, config_hash, t) ==
    IF key \in DOMAIN c.cache
    THEN LET e == c.cache[key] IN
         IF t > e.expiry
         THEN [c |-> CacheRemove(c, key), ret |-> None]
         ELSE IF e.hash # config_hash
         THEN [c |-> CacheRemove(c, key), ret |-> None]
         ELSE IF ~InList(c.order, key)
         THEN [c |-> c, ret |-> Raised(<<"ValueError: list.remove(x): x not in list">>)]      \* list.remove(x): x not in list
         ELSE [c |-> [cache |-> c.cache,
                      order |-> Append(ListRemove(c.order, key), key)],
               ret |-> e.value]
    ELSE [c |-> c, ret |-> None]

\* the ttl as it would be if set ignored its ttl argument
EffectiveTtl_Default(ttl) == default_ttl

\* ttl = ttl or self.default_ttl; a ttl of 0 stands for both falsy values,
\* None (the argument left out) and 0
EffectiveTtl(ttl) == IF ttl = 0 THEN default_ttl ELSE ttl

\* the order as it would be if set appended without removing the old position
SetOrder_NoDedup(ord, key) == Append(ord, key)

\* order after set's remove-then-append
SetOrder(ord, key) ==
    Append(IF InList(ord, key) THEN ListRemove(ord, key) ELSE ord, key)

\* LTRUCache.set at time t: the cache afterwards and the key evicted, if any
CacheSet(c, key, value, config_hash, ttl, t) ==
    LET d1 == DictPut(c.cache, key,
                      [hash |-> config_hash, value |-> value,
                       expiry |-> t + EffectiveTtl(ttl)])
        o1 == SetOrder(c.order, key)
    IN  IF Len(o1) > Capacity
        THEN [c |-> [cache |-> DictDel(d1, Head(o1)), order |-> Tail(o1)],
              evicted |-> Head(o1)]
        ELSE [c |-> [cache |-> d1, order |-> o1], evicted |-> None]

-----------------------------------------------------------------------------
(* OSRMClient (src/src/routing/client.py); b is [state, failures,          *)
(* last_failure_time]                                                      *)

Breaker == [state |-> state, failures |-> failures,
            last_failure_time |-> last_failure_time]

\* _record_failure as it would be with the threshold test written >
RecordFailure_Late(b, t) ==
    LET f == b.failures + 1 IN
    [state |-> IF f > failure_threshold THEN STATE_OPEN ELSE b.state,
     failures |-> f,
     last_failure_time |-> t]

\* _record_failure as it would be if it stamped the time only on opening
\* from CLOSED
RecordFailure_NoStamp(b, t) ==
    LET f == b.failures + 1 IN
    [state |-> IF f >= failure_threshold THEN STATE_OPEN ELSE b.state,
     failures |-> f,
     last_failure_time |-> IF b.state = STATE_CLOSED THEN t
                           ELSE b.last_failure_time]

\* OSRMClient._record_failure at time t
RecordFailure(b, t) ==
    LET f == b.failures + 1 IN
    [state |-> IF f >= failure_threshold THEN STATE_OPEN ELSE b.state,
     failures |-> f,
     last_failure_time |-> t]

\* _reset_circuit as it would be if it left the failure count alone
ResetCircuit_KeepsCount(b) ==
    [state |-> STATE_CLOSED, failures |-> b.failures,
     last_failure_time |-> b.last_failure_time]

\* OSRMClient._reset_circuit
ResetCircuit(b) ==
    [state |-> STATE_CLOSED, failures |-> 0,
     last_failure_time |-> b.last_failure_time]

\* the circuit check as it would be with the cooldown test written >=
CircuitCheck_Early(b, t) ==
    IF b.state = STATE_OPEN
    THEN IF t - b.last_failure_time >= cooldown
         THEN [b |-> [b EXCEPT !.state = STATE_HALF_OPEN], pass |-> TRUE]
         ELSE [b |-> b, pass |-> FALSE]
    ELSE [b |-> b, pass |-> TRUE]

\* the check as it would be if a rejected call already moved the breaker on
CircuitCheck_RejectMoves(b, t) ==
    IF b.state = STATE_OPEN
    THEN IF t - b.last_failure_time > cooldown
         THEN [b |-> [b EXCEPT !.state = STATE_HALF_OPEN], pass |-> TRUE]
         ELSE [b |-> [b EXCEPT !.state = STATE_HALF_OPEN], pass |-> FALSE]
    ELSE [b |-> b, pass |-> TRUE]

\* The circuit check that opens get_route: the breaker afterwards and
\* whether the call goes on (FALSE: "Circuit Open" is raised)
CircuitCheck(b, t) ==
    IF b.state = STATE_OPEN
    THEN IF t - b.last_failure_time > cooldown
         THEN [b |-> [b EXCEPT !.state = STATE_HALF_OPEN], pass |-> TRUE]
         ELSE [b |-> b, pass |-> FALSE]
    ELSE [b |-> b, pass |-> TRUE]

CircuitOpenError == Raised(<<"Circuit Open: Upstream Unavailable">>)

-----------------------------------------------------------------------------
(* geometry_utils (src/src/routing/geometry_utils.py).  The source divides *)
(* floats; on integer coordinates the comparison lat < n / d + xi is       *)
(* decided exactly by cross-multiplying with the sign of d.                *)

\* lat < (xj - xi) * (lon - yi) / (yj - yi) + xi, for yj # yi
LeftOfEdge(lat, lon, xi, yi, xj, yj) ==
    LET n == (xj - xi) * (lon - yi)
        d == yj - yi
    IN  IF d > 0 THEN (lat - xi) * d < n ELSE (lat - xi) * d > n

\* the edge test as it would be with the polygon left open: the first
\* vertex paired with itself instead of the last
EdgeCrossed_Open(point, polygon, i) ==
    LET j  == IF i = 1 THEN 1 ELSE i - 1
        xi == polygon[i][1]
        yi == polygon[i][2]
        xj == polygon[j][1]
        yj == polygon[j][2]
    IN  /\ (yi > point[2]) # (yj > point[2])
        /\ LeftOfEdge(point[1], point[2], xi, yi, xj, yj)

\* the edge test of the ray-casting loop for vertex i, j the vertex before it
EdgeCrossed(point, polygon, i) ==
    LET j  == IF i = 1 THEN Len(polygon) ELSE i - 1
        xi == polygon[i][1]
        yi == polygon[i][2]
        xj == polygon[j][1]
        yj == polygon[j][2]
    IN  /\ (yi > point[2]) # (yj > point[2])
        /\ LeftOfEdge(point[1], point[2], xi, yi, xj, yj)

\* inside after the loop has run over vertices 1..i
RECURSIVE InsideUpTo(_, _, _)
InsideUpTo(point, polygon, i) ==
    IF i = 0 THEN FALSE
    ELSE LET before == InsideUpTo(point, polygon, i - 1) IN
         IF EdgeCrossed(point, polygon, i) THEN ~before ELSE before

point_in_polygon(point, polygon) == InsideUpTo(point, polygon, Len(polygon))

ccw(A, B, C) == (C[2] - A[2]) * (B[1] - A[1]) > (B[2] - A[2]) * (C[1] - A[1])

segments_intersect(p1, p2, p3, p4) ==
    /\ ccw(p1, p3, p4) # ccw(p2, p3, p4)
    /\ ccw(p1, p2, p3) # ccw(p1, p2, p4)

\* route_coords are [lon, lat] pairs, polygon vertices (lat, lon)
route_intersects_polygon(route_coords, polygon) ==
    LET route_points == [i \in 1..Len(route_coords) |->
                            <<route_coords[i][2], route_coords[i][1]>>]
        poly_len == Len(polygon)
    IN  \/ \E i \in 1..Len(route_points) :
              point_in_polygon(route_points[i], polygon)
        \/ \E i \in 1..(Len(route_points) - 1) : \E j \in 1..poly_len :
              segments_intersect(route_points[i], route_points[i + 1],
                                 polygon[j], polygon[(j % poly_len) + 1])

Min(S) == CHOOSE x \in S : \A y \in S : x <= y
Max(S) == CHOOSE x \in S : \A y \in S : x >= y

\* (min_lat, min_lon, max_lat, max_lon)
get_bbox(points) ==
    IF points = <<>> THEN <<0, 0, 0, 0>>
    ELSE LET lats == {points[i][1] : i \in 1..Len(points)}
             lons == {points[i][2] : i \in 1..Len(points)}
         IN  <<Min(lats), Min(lons), Max(lats), Max(lons)>>

\* bbox_intersects as it would be with <= in the disjointness tests: boxes
\* that only touch do not intersect
bbox_intersects_Strict(box1, box2) ==
    ~ (\/ box1[3] <= box2[1] \/ box2[3] <= box1[1]
       \/ box1[4] <= box2[2] \/ box2[4] <= box1[2])

bbox_intersects(box1, box2) ==
    ~ (\/ box1[3] < box2[1] \/ box2[3] < box1[1]
       \/ box1[4] < box2[2] \/ box2[4] < box1[2])

-----------------------------------------------------------------------------
(* Configuration (src/src/routing/config_loader.py).  zones.json and       *)
(* portals.json are deployment data: the model fixes one configuration     *)
(* with the sensitive zone, a second forbidden zone and one portal of each *)
(* type.  Names are sequences of characters, so that lower() and the       *)
(* substring test are computed.                                            *)

UpperAlpha == <<"A","B","C","D","E","F","G","H","I","J","K","L","M",
                "N","O","P","Q","R","S","T","U","V","W","X","Y","Z">>
LowerAlpha == <<"a","b","c","d","e","f","g","h","i","j","k","l","m",
                "n","o","p","q","r","s","t","u","v","w","x","y","z">>

\* str.lower(), per character and over a name
LowerChar(ch) ==
    IF \E i \in 1..Len(UpperAlpha) : UpperAlpha[i] = ch
    THEN LowerAlpha[CHOOSE i \in 1..Len(UpperAlpha) : UpperAlpha[i] = ch]
    ELSE ch
Lower(s) == [i \in 1..Len(s) |-> LowerChar(s[i])]

\* a in b, for strings
IsSubstring(a, b) ==
    \E k \in 0..(Len(b) - Len(a)) : SubSeq(b, k + 1, k + Len(a)) = a

BeachZone ==
    [id |-> "ZONE_BEACH_RD", name |-> <<"Beach Road">>,
     rule |-> "FORBIDDEN_SEGMENT",
     geometry |-> << <<40, 40>>, <<40, 60>>, <<60, 60>>, <<60, 40>> >>]
MarketZone ==
    [id |-> "ZONE_MARKET", name |-> <<"Market Street">>,
     rule |-> "FORBIDDEN_SEGMENT",
     geometry |-> << <<40, 100>>, <<40, 120>>, <<60, 120>>, <<60, 100>> >>]

\* ConfigLoader.get_zones()
Zones == <<BeachZone, MarketZone>>

\* ConfigLoader.get_portals(), in the order of the file
Portals ==
    << [key |-> <<"p","i","e","r">>, type |-> "STANDARD",
        entry_gate |-> [lat |-> 50, lon |-> 30],
        exit_gate  |-> [lat |-> 50, lon |-> 70]],
       [key |-> <<"a","p","t">>, type |-> "ACCESS_CONTROLLED_STOP",
        entry_gate |-> [lat |-> 82, lon |-> 78],
        exit_gate  |-> [lat |-> 82, lon |-> 94]] >>

\* ConfigLoader.config_hash: the digest of the loaded configuration
ConfigHash == "hash(zones+portals)"

-----------------------------------------------------------------------------
(* RouteValidator (src/src/routing/validator.py).  A response body is      *)
(* [code, routes], routes a sequence of [geometry]; validate returns       *)
(* (is_valid, reason).                                                     *)

\* the zones from index i on: the first forbidden one the route intersects
RECURSIVE ValidateFrom(_, _, _)
ValidateFrom(geometry, zones, i) ==
    IF i > Len(zones) THEN [ok |-> TRUE, reason |-> <<"Valid">>]
    ELSE IF /\ zones[i].rule = "FORBIDDEN_SEGMENT"
            /\ route_intersects_polygon(geometry, zones[i].geometry)
    THEN [ok |-> FALSE,
          reason |-> <<"Spatial Violation: Intersects ">> \o zones[i].name]
    ELSE ValidateFrom(geometry, zones, i + 1)

\* validate as it would be if the loop returned after the first zone
validate_FirstZoneOnly(route_json) ==
    IF route_json = None \/ route_json.routes = <<>>
    THEN [ok |-> FALSE, reason |-> <<"No route data">>]
    ELSE IF /\ Len(Zones) >= 1
            /\ Zones[1].rule = "FORBIDDEN_SEGMENT"
            /\ route_intersects_polygon(route_json.routes[1].geometry,
                                        Zones[1].geometry)
    THEN [ok |-> FALSE,
          reason |-> <<"Spatial Violation: Intersects ">> \o Zones[1].name]
    ELSE [ok |-> TRUE, reason |-> <<"Valid">>]

\* validate as it would be if every zone were tested, whatever its rule
validate_with_AnyRule(zones, route_json) ==
    IF route_json = None \/ route_json.routes = <<>>
    THEN [ok |-> FALSE, reason |-> <<"No route data">>]
    ELSE LET hits == {i \in 1..Len(zones) :
                         route_intersects_polygon(route_json.routes[1].geometry,
                                                  zones[i].geometry)}
         IN  IF hits = {} THEN [ok |-> TRUE, reason |-> <<"Valid">>]
             ELSE [ok |-> FALSE,
                   reason |-> <<"Spatial Violation: Intersects ">>
                              \o zones[CHOOSE i \in hits : \A j \in hits : i <= j].name]

\* validate, for a loader whose get_zones() gives zones
validate_with(zones, route_json) ==
    IF route_json = None \/ route_json.routes = <<>>
    THEN [ok |-> FALSE, reason |-> <<"No route data">>]
    ELSE ValidateFrom(route_json.routes[1].geometry, zones, 1)

validate(route_json) == validate_with(Zones, route_json)

-----------------------------------------------------------------------------
(* RoutingEngine (src/src/routing/engine.py) *)

STRATEGY_PORTALS_ONLY == "PORTALS_ONLY"
STRATEGY_PLUS_CITY    == "PORTALS_PLUS_CITY"
STRATEGY_PLUS_HIGHWAY == "PORTALS_PLUS_HIGHWAY"

TIME_BUDGET == 8

\* sorted(stops_payload, key=lat, reverse=True): stable, so a stop goes
\* behind the stops of the same latitude that came before it
RECURSIVE InsertStop(_, _)
InsertStop(sorted, s) ==
    IF sorted = <<>> THEN <<s>>
    ELSE IF Head(sorted).lat >= s.lat
    THEN <<Head(sorted)>> \o InsertStop(Tail(sorted), s)
    ELSE <<s>> \o sorted

\* the sort as it would be if it kept the stops in the order given
SortStops_AsGiven(stops) == stops

RECURSIVE SortStops(_)
SortStops(stops) ==
    IF stops = <<>> THEN <<>>
    ELSE InsertStop(SortStops(SubSeq(stops, 1, Len(stops) - 1)),
                    stops[Len(stops)])

\* RoutingEngine._get_cache_key: the digest of stops + strategy + config
\* hash, modelled by the triple it digests (no md5 collisions)
CacheKey(stops, strategy) == <<stops, strategy, ConfigHash>>

\* next((z for z in self.zones if z['id'] == 'ZONE_BEACH_RD'), None)
FindBeachZoneIn(zones) ==
    IF \E i \in 1..Len(zones) : zones[i].id = "ZONE_BEACH_RD"
    THEN zones[Min({i \in 1..Len(zones) : zones[i].id = "ZONE_BEACH_RD"})]
    ELSE None

FindBeachZone == FindBeachZoneIn(Zones)

\* the portal loop of _validate_stops_access: some portal key occurs in the name
IsAllowedBy(portals, name) ==
    \E i \in 1..Len(portals) : IsSubstring(Lower(portals[i].key), Lower(name))

IsAllowed(name) == IsAllowedBy(Portals, name)

\* a stop the zone guard rejects
GuardRejectsBy(portals, stop, polygon) ==
    /\ ~IsAllowedBy(portals, stop.name)
    /\ point_in_polygon(<<stop.lat, stop.lon>>, polygon)

GuardRejects(stop, polygon) == GuardRejectsBy(Portals, stop, polygon)

\* RoutingEngine._validate_stops_access for an engine built with self.zones
\* = zones and self.portals = portals: None, or the exception raised for the
\* first stop rejected
validate_stops_access_with(zones, portals, stops) ==
    LET beach_zone == FindBeachZoneIn(zones) IN
    IF beach_zone = None THEN None
    ELSE LET bad == {i \in 1..Len(stops) :
                        GuardRejectsBy(portals, stops[i], beach_zone.geometry)}
         IN  IF bad = {} THEN None
             ELSE Raised(<<"CRITICAL CONFIG ERROR: Stop '">>
                         \o stops[Min(bad)].name
                         \o <<"' is physically inside the Restricted Beach Road Zone but has no Access Rule defined in portals.json. Please configure a Portal for this stop.">>)

validate_stops_access(stops) == validate_stops_access_with(Zones, Portals, stops)

\* the strategy list of get_optimized_route
SelectStrategiesWith(zones, stops) ==
    LET beach_zone == FindBeachZoneIn(zones) IN
    IF beach_zone = None THEN <<STRATEGY_PORTALS_ONLY>>
    ELSE LET stops_pts == [i \in 1..Len(stops) |-> <<stops[i].lat, stops[i].lon>>]
         IN  IF bbox_intersects(get_bbox(stops_pts), get_bbox(beach_zone.geometry))
             THEN <<STRATEGY_PLUS_HIGHWAY, STRATEGY_PLUS_CITY, STRATEGY_PORTALS_ONLY>>
             ELSE <<STRATEGY_PORTALS_ONLY>>

SelectStrategies(stops) == SelectStrategiesWith(Zones, stops)

\* f"{x:.5f}" read back by float(): x to five decimals, that is to the
\* nearest multiple of 10 (the inputs have no sixth decimal of 5, where the
\* digit printed depends on the binary representation of x)
Round5(x) == 10 * ((x + 5) \div 10)

\* the (lon, lat) pair that f"{lon:.5f},{lat:.5f}" is parsed back into
Formatted(lon, lat) == <<Round5(lon), Round5(lat)>>

\* the portal loop of _inject_portals: the first portal whose key occurs in
\* the name, or None
MatchPortal(name) ==
    LET hits == {i \in 1..Len(Portals) :
                    IsSubstring(Lower(Portals[i].key), Lower(name))}
    IN  IF hits = {} THEN None ELSE Portals[Min(hits)]

\* the loop body as it would be without the sandwich: an intermediate stop
\* of a STANDARD portal gets its own coordinate only
StopCoords_NoSandwich(stops, i) ==
    LET stop   == stops[i]
        portal == MatchPortal(stop.name)
        own    == Formatted(stop.lon, stop.lat)
    IN  IF portal = None THEN <<own>>
        ELSE LET is_access_controlled == (portal.type = "ACCESS_CONTROLLED_STOP")
                 entry == Formatted(portal.entry_gate.lon, portal.entry_gate.lat)
                 exit  == Formatted(portal.exit_gate.lon, portal.exit_gate.lat)
             IN  IF i = 1
                 THEN IF is_access_controlled THEN <<exit>> ELSE <<own>>
                 ELSE IF i = Len(stops)
                 THEN IF is_access_controlled THEN <<entry>> ELSE <<own>>
                 ELSE IF is_access_controlled THEN <<entry>>
                 ELSE <<own>>

\* the loop body as it would be without the access-controlled branch of the
\* intermediate case: every intermediate portal stop gets the sandwich
StopCoords_AlwaysSandwich(stops, i) ==
    LET stop   == stops[i]
        portal == MatchPortal(stop.name)
        own    == Formatted(stop.lon, stop.lat)
    IN  IF portal = None THEN <<own>>
        ELSE LET is_access_controlled == (portal.type = "ACCESS_CONTROLLED_STOP")
                 entry == Formatted(portal.entry_gate.lon, portal.entry_gate.lat)
                 exit  == Formatted(portal.exit_gate.lon, portal.exit_gate.lat)
             IN  IF i = 1
                 THEN IF is_access_controlled THEN <<exit>> ELSE <<own>>
                 ELSE IF i = Len(stops)
                 THEN IF is_access_controlled THEN <<entry>> ELSE <<own>>
                 ELSE <<entry, own, exit>>

\* the coordinates the loop of _inject_portals appends for stop i
StopCoords(stops, i) ==
    LET stop   == stops[i]
        portal == MatchPortal(stop.name)
        own    == Formatted(stop.lon, stop.lat)
    IN  IF portal = None THEN <<own>>
        ELSE LET is_access_controlled == (portal.type = "ACCESS_CONTROLLED_STOP")
                 entry == Formatted(portal.entry_gate.lon, portal.entry_gate.lat)
                 exit  == Formatted(portal.exit_gate.lon, portal.exit_gate.lat)
             IN  IF i = 1
                 THEN IF is_access_controlled THEN <<exit>> ELSE <<own>>
                 ELSE IF i = Len(stops)
                 THEN IF is_access_controlled THEN <<entry>> ELSE <<own>>
                 ELSE IF is_access_controlled THEN <<entry>>
                 ELSE <<entry, own, exit>>

\* transformed_coords after the loop has run over the stops from i on
RECURSIVE TransformFrom(_, _)
TransformFrom(stops, i) ==
    IF i > Len(stops) THEN <<>>
    ELSE StopCoords(stops, i) \o TransformFrom(stops, i + 1)

\* list.insert as it would be if it appended
ListInsert_AtEnd(s, k, x) == Append(s, x)

\* list.insert(k, x), k counted from 0
ListInsert(s, k, x) ==
    LET at == IF k > Len(s) THEN Len(s) ELSE k
    IN  SubSeq(s, 1, at) \o <<x>> \o SubSeq(s, at + 1, Len(s))

\* the via points "75.78800,11.25200" (Palayam) and "75.82000,11.27000"
\* (bypass), as (lon, lat)
PalayamVia == <<75788000, 11252000>>
BypassVia  == <<75820000, 11270000>>

\* RoutingEngine._inject_portals: the (lon, lat) list sent to the provider
inject_portals(stops, strategy) ==
    LET transformed_coords == TransformFrom(stops, 1)
        mid == Max({1, Len(transformed_coords) \div 2})
    IN  IF strategy = STRATEGY_PLUS_CITY
        THEN ListInsert(transformed_coords, mid, PalayamVia)
        ELSE IF strategy = STRATEGY_PLUS_HIGHWAY
        THEN ListInsert(transformed_coords, mid, BypassVia)
        ELSE transformed_coords

-----------------------------------------------------------------------------
(* Inputs: the stops callers send and the answers the upstream can give *)

Hub  == [name |-> <<"H","u","b">>,     lat |-> 90, lon |-> 10]
Mill == [name |-> <<"M","i","l","l">>, lat |-> 80, lon |-> 20]
Nor  == [name |-> <<"N","o","r">>,     lat |-> 70, lon |-> 50]
Sou  == [name |-> <<"S","o","u">>,     lat |-> 30, lon |-> 50]
Sea  == [name |-> <<"S","e","a">>,     lat |-> 50, lon |-> 50]   \* in the beach zone
Pier == [name |-> <<"P","I","E","R">>, lat |-> 50, lon |-> 50]   \* in the beach zone, portal "pier"
Mkt  == [name |-> <<"M","k","t">>,     lat |-> 50, lon |-> 110]  \* in the market zone
Inn  == [name |-> <<"I","n","n">>,     lat |-> 70, lon |-> 110]
Apt  == [name |-> <<"A","p","t">>,     lat |-> 86, lon |-> 84]   \* portal "apt"
Toll == [name |-> <<"T","o","l","l">>, lat |-> 60, lon |-> 70]   \* level with the beach zone's edge
Oval == [name |-> <<"C","i","r","c","u","i","t"," ","O","p","e","n">>,
         lat |-> 55, lon |-> 50]                                  \* in the beach zone

\* the stop lists given to the part of get_optimized_route before the loop
\* and to the transformer on their own: every list of up to MaxStops of these
StopPool  == {Hub, Nor, Sou, Sea, Pier, Mkt, Apt, Toll, Oval}
StopLists == UNION {[1..n -> StopPool] : n \in 1..MaxStops}

\* stop lists as the caller gives them (not yet sorted), for the engine
Requests ==
    { <<Mill, Hub>>,         \* far from every zone
      <<Sou, Pier, Nor>>,    \* around the beach zone; Pier is inside it and has a portal
      <<Sea, Hub>>,          \* a stop inside the beach zone, no portal
      <<Oval, Hub>> }        \* the same, the stop's name being words of an error message

\* route geometries, [lon, lat] pairs
RouteClear         == [code |-> "Ok", routes |-> << [geometry |-> << <<10, 90>>, <<20, 80>> >>] >>]
RouteThroughBeach  == [code |-> "Ok", routes |-> << [geometry |-> << <<50, 70>>, <<50, 50>>, <<50, 30>> >>] >>]
RouteCrossBeach    == [code |-> "Ok", routes |-> << [geometry |-> << <<50, 70>>, <<50, 30>> >>] >>]
RouteThroughMarket == [code |-> "Ok", routes |-> << [geometry |-> << <<110, 70>>, <<110, 50>> >>] >>]
NoRouteBody        == [code |-> "NoRoute", routes |-> <<>>]
BadQueryBody       == [code |-> "InvalidQuery", routes |-> <<>>]

\* what requests.get can come back with: a response, or a RequestException.
\* json is what resp.json() does with the body: "ok" (it parses), or the
\* exception raised for a body that is not JSON, which is a plain ValueError
\* or a RequestException (requests.exceptions.JSONDecodeError) depending on
\* the requests release installed
Responses ==
    { [kind |-> "http", status |-> 200, body |-> b, json |-> "ok"] :
          b \in {RouteClear, RouteThroughBeach, RouteCrossBeach,
                 RouteThroughMarket, NoRouteBody} }
    \cup { [kind |-> "http", status |-> 400, body |-> BadQueryBody, json |-> "ok"],
           [kind |-> "http", status |-> 429, body |-> None, json |-> "ValueError"],
           [kind |-> "http", status |-> 429, body |-> None, json |-> "RequestException"],
           [kind |-> "http", status |-> 503, body |-> None, json |-> "ok"],
           [kind |-> "neterr", status |-> 0, body |-> None, json |-> "ok"] }

\* a call the breaker is meant to count: a network error or a 5xx
IsFailure(resp) == resp.kind = "neterr" \/ resp.status >= 500

\* a call get_route answers with the parsed body
Answered(resp) == ~IsFailure(resp) /\ resp.json = "ok"

\* the part of get_optimized_route before the loop, per request, and the
\* validator's verdict per response: computed once, looked up by the actions
Prepared ==
    [stops \in Requests |->
        LET sorted == SortStops(stops) IN
        [sorted     |-> sorted,
         guard      |-> validate_stops_access(sorted),
         strategies |-> SelectStrategies(sorted)]]

Verdicts == [resp \in Responses |-> validate(resp.body)]

-----------------------------------------------------------------------------
(* State *)

EmptyDict == [x \in {} |-> None]

Threads == 1..MaxThreads
IdleThread == [pc |-> "idle"]

Init ==
    /\ now = 0
    /\ cache = EmptyDict
    /\ order = <<>>
    /\ state = STATE_CLOSED
    /\ failures = 0
    /\ last_failure_time = 0
    /\ sem = SemPermits
    /\ pc = "idle"
    /\ op = [name |-> "init"]
    /\ ret = None
    /\ streak = 0
    /\ req = <<>>
    /\ strategies = <<>>
    /\ idx = 0
    /\ last_error = <<>>
    /\ start_time = 0
    /\ failedAt = EmptyDict
    /\ nreq = 0
    /\ waiting = 0
    /\ inflight = 0
    /\ th = [i \in Threads |-> IdleThread]
    /\ ncalls = 0

TheCache == [cache |-> cache, order |-> order]

\* Time passes, between requests or while an upstream call is in flight; the
\* clock is started by the first operation, and is not followed once the last
\* request of the behaviour is over.  A validation failure older than the
\* negative TTL is forgotten
Tick ==
    /\ pc # "loop"
    /\ op.name # "init"
    /\ ~(pc = "idle" /\ nreq >= MaxRequests)
    /\ \E t \in TimePoints : t > now /\ now' = t
    /\ op' = [name |-> "tick"]
    /\ failedAt' = [k \in {x \in DOMAIN failedAt : now' - failedAt[x] <= NEGATIVE_TTL}
                       |-> failedAt[k]]
    /\ UNCHANGED <<callerVars, cacheVars, clientVars, req, strategies, idx, last_error,
                   start_time, pc, ret, nreq>>

-----------------------------------------------------------------------------
(* The cache used on its own: set with any key, hash and value, get with   *)
(* any key and the hash of the configuration in force, as the engine calls *)
(* it (engine.py:192)                                                      *)

CacheKeys == {CacheKey(Prepared[<<Mill, Hub>>].sorted, STRATEGY_PORTALS_ONLY),
              CacheKey(Prepared[<<Sou, Pier, Nor>>].sorted, STRATEGY_PLUS_HIGHWAY),
              CacheKey(Prepared[<<Sou, Pier, Nor>>].sorted, STRATEGY_PLUS_CITY),
              CacheKey(Prepared[<<Sou, Pier, Nor>>].sorted, STRATEGY_PORTALS_ONLY)}

StaleHash == "hash(older zones+portals)"

\* (value, config_hash, ttl) of a set: the engine's two kinds of entry, and
\* an entry stored under another configuration
SetInputs ==
    { <<[kind |-> "data", data |-> RouteClear], ConfigHash, 0>>,
      <<[kind |-> "error", error |-> <<"No route data">>], ConfigHash, NEGATIVE_TTL>>,
      <<[kind |-> "data", data |-> RouteClear], StaleHash, 0>> }

Get(key, config_hash) ==
    /\ pc = "idle"
    /\ LET got == CacheGet(TheCache, key, config_hash, now) IN
       /\ cache' = got.c.cache
       /\ order' = got.c.order
       /\ ret' = got.ret
    /\ op' = [name |-> "get", key |-> key, hash |-> config_hash,
              removed |-> key \in DOMAIN cache /\ key \notin DOMAIN cache']
    /\ UNCHANGED <<callerVars, now, clientVars, engineVars, pc>>

Set(key, in) ==
    /\ pc = "idle"
    /\ LET put == CacheSet(TheCache, key, in[1], in[2], in[3], now) IN
       /\ cache' = put.c.cache
       /\ order' = put.c.order
       /\ op' = [name |-> "set", key |-> key, evicted |-> put.evicted]
    /\ ret' = None
    /\ UNCHANGED <<callerVars, now, clientVars, engineVars, pc>>

NextCache ==
    \/ \E key \in CacheKeys : Get(key, ConfigHash)
    \/ \E key \in CacheKeys, in \in SetInputs : Set(key, in)
    \/ Tick

SpecCache == Init /\ [][NextCache]_vars

-----------------------------------------------------------------------------
(* The client used on its own: one caller of get_route at a time *)

StatusText(status) == IF status = 503 THEN "503" ELSE "5xx"

\* get_route as it would be without the status test: a 5xx answer is parsed
\* and returned like any other
ClientOutcome_NoStatusTest(b, resp, t) ==
    IF resp.kind = "neterr"
    THEN [b |-> RecordFailure(b, t),
          result |-> Raised(<<"OSRM Connection Error: ", "RequestException">>)]
    ELSE [b |-> ResetCircuit(b),
          result |-> [kind |-> "json", data |-> resp.body]]

\* get_route after requests.get has come back with resp at time t: the
\* breaker afterwards and what the call returns or raises
ClientOutcome(b, resp, t) ==
    IF resp.kind = "neterr"
    THEN [b |-> RecordFailure(b, t),
          result |-> Raised(<<"OSRM Connection Error: ", "RequestException">>)]
    ELSE IF resp.status >= 500
    THEN [b |-> RecordFailure(b, t),
          result |-> Raised(<<"OSRM Server Error ", StatusText(resp.status)>>)]
    ELSE IF resp.json = "ok"
    THEN [b |-> ResetCircuit(b),
          result |-> [kind |-> "json", data |-> resp.body]]
    ELSE IF resp.json = "RequestException"
    THEN [b |-> RecordFailure(ResetCircuit(b), t),
          result |-> Raised(<<"OSRM Connection Error: ", "JSONDecodeError">>)]
    ELSE [b |-> ResetCircuit(b),
          result |-> Raised(<<"JSONDecodeError">>)]

\* get_route up to requests.get
GetRoute ==
    /\ pc = "idle"
    /\ LET chk == CircuitCheck(Breaker, now) IN
       /\ state' = chk.b.state
       /\ IF chk.pass
          THEN /\ sem > 0
               /\ sem' = sem - 1
               /\ pc' = "call"
               /\ ret' = None
          ELSE /\ sem' = sem
               /\ pc' = "idle"
               /\ ret' = CircuitOpenError
    /\ op' = [name |-> "get_route"]
    /\ UNCHANGED <<callerVars, now, cacheVars, engineVars, failures, last_failure_time, streak>>

\* requests.get comes back and get_route runs to its end
GetRouteReturn(resp) ==
    /\ pc = "call"
    /\ IsFailure(resp) => failures < MaxFailures
    /\ LET out == ClientOutcome(Breaker, resp, now) IN
       /\ state' = out.b.state
       /\ failures' = out.b.failures
       /\ last_failure_time' = out.b.last_failure_time
       /\ ret' = out.result
    /\ streak' = IF IsFailure(resp) THEN streak + 1 ELSE 0
    /\ sem' = sem + 1
    /\ pc' = "idle"
    /\ op' = [name |-> "get_route_return", was |-> state, resp |-> resp]
    /\ UNCHANGED <<callerVars, now, cacheVars, engineVars>>

NextClient ==
    \/ GetRoute
    \/ \E resp \in Responses : GetRouteReturn(resp)
    \/ Tick

SpecClient == Init /\ [][NextClient]_vars

-----------------------------------------------------------------------------
(* The client under many callers, counted: how many stand at the semaphore *)
(* and how many are inside requests.get.  What a caller does before the    *)
(* semaphore and after it is taken in one step each.                       *)

\* `with self.sem:` left with a permit kept when requests.get raised
Release_NotOnError(s, resp) == IF resp.kind = "neterr" THEN s ELSE s + 1

\* `with self.sem:` left, by return or by exception: the permit goes back
Release(s, resp) == s + 1

\* a caller enters get_route: circuit check, then it stands at the semaphore
Arrive ==
    /\ pc = "idle"
    /\ waiting + inflight < MaxCallers
    /\ LET chk == CircuitCheck(Breaker, now) IN
       /\ state' = chk.b.state
       /\ waiting' = IF chk.pass THEN waiting + 1 ELSE waiting
       /\ ret' = IF chk.pass THEN None ELSE CircuitOpenError
    /\ op' = [name |-> "arrive", was |-> state]
    /\ UNCHANGED <<now, cacheVars, engineVars, failures, last_failure_time,
                   sem, streak, pc, inflight, th, ncalls>>

\* self.sem.__enter__ returns for one of the callers blocked on it
Acquire ==
    /\ waiting > 0
    /\ sem > 0
    /\ sem' = sem - 1
    /\ waiting' = waiting - 1
    /\ inflight' = inflight + 1
    /\ op' = [name |-> "acquire"]
    /\ UNCHANGED <<now, cacheVars, engineVars, state, failures,
                   last_failure_time, streak, pc, ret, th, ncalls>>

\* requests.get comes back for one of the callers and its get_route ends
Return(resp) ==
    /\ inflight > 0
    /\ IsFailure(resp) => failures < MaxFailures
    /\ inflight' = inflight - 1
    /\ sem' = Release(sem, resp)
    /\ LET out == ClientOutcome(Breaker, resp, now) IN
       /\ state' = out.b.state
       /\ failures' = out.b.failures
       /\ last_failure_time' = out.b.last_failure_time
       /\ ret' = out.result
    /\ streak' = IF IsFailure(resp) THEN streak + 1 ELSE 0
    /\ op' = [name |-> "return", was |-> state, resp |-> resp]
    /\ UNCHANGED <<now, cacheVars, engineVars, pc, waiting, th, ncalls>>

NextGate ==
    \/ Arrive
    \/ Acquire
    \/ \E resp \in Responses : Return(resp)
    \/ Tick

SpecGate == Init /\ [][NextGate]_vars

-----------------------------------------------------------------------------
(* The client under concurrent callers, statement by statement: a thread   *)
(* may be overtaken between any two reads or writes of the breaker's       *)
(* fields.  th[i] holds the thread's position and locals: resp (what       *)
(* requests.get gave it), tmp (the value of self.failures it has read) and *)
(* trial (its circuit check moved the breaker to HALF_OPEN).               *)

\* what requests.get gives a thread: an answer, a 4xx that is not JSON, a 5xx
ThreadResponses ==
    { r \in Responses :
        \/ r.status = 503
        \/ r.status = 200 /\ r.body = RouteClear
        \/ r.status = 429 /\ r.json = "RequestException" }

At(i, where) == th[i].pc = where

Goto(i, where) == th' = [th EXCEPT ![i].pc = where]

\* line 22: `if self.state == self.STATE_OPEN`
Check(i) ==
    /\ At(i, "idle")
    /\ ncalls < MaxCalls
    /\ ncalls' = ncalls + 1
    /\ th' = [th EXCEPT ![i] = [pc    |-> IF state = STATE_OPEN THEN "cooldown" ELSE "sem",
                                resp  |-> None,
                                tmp   |-> 0,
                                trial |-> FALSE]]
    /\ op' = [name |-> "check", thread |-> i, was |-> state]
    /\ UNCHANGED <<now, cacheVars, clientVars, engineVars, pc, ret, waiting, inflight>>

\* lines 23-26, by a thread that has seen OPEN: the cooldown test, then
\* HALF_OPEN or the circuit error
Cooldown(i) ==
    /\ At(i, "cooldown")
    /\ LET chk == CircuitCheck([Breaker EXCEPT !.state = STATE_OPEN], now) IN
       IF chk.pass
       THEN /\ state' = chk.b.state
            /\ th' = [th EXCEPT ![i].pc = "sem", ![i].trial = TRUE]
            /\ ret' = ret
       ELSE /\ state' = state
            /\ th' = [th EXCEPT ![i] = IdleThread]
            /\ ret' = CircuitOpenError
    /\ op' = [name |-> "cooldown", thread |-> i]
    /\ UNCHANGED <<now, cacheVars, engineVars, failures, last_failure_time,
                   sem, streak, pc, waiting, inflight, ncalls>>

\* line 33: the thread takes a permit and requests.get starts
Enter(i) ==
    /\ At(i, "sem")
    /\ sem > 0
    /\ sem' = sem - 1
    /\ Goto(i, "get")
    /\ op' = [name |-> "enter", thread |-> i]
    /\ UNCHANGED <<now, cacheVars, engineVars, state, failures,
                   last_failure_time, streak, pc, ret, waiting, inflight, ncalls>>

\* lines 34-36 and 43: requests.get comes back, the permit is released, and
\* the thread is on its way to _record_failure or to _reset_circuit
Respond(i, resp) ==
    /\ At(i, "get")
    /\ sem' = Release(sem, resp)
    /\ th' = [th EXCEPT ![i].resp = resp,
                        ![i].pc = IF IsFailure(resp) THEN "record" ELSE "reset"]
    /\ op' = [name |-> "respond", thread |-> i, resp |-> resp]
    /\ UNCHANGED <<now, cacheVars, engineVars, state, failures,
                   last_failure_time, streak, pc, ret, waiting, inflight, ncalls>>

\* line 48, `self.failures += 1`: the read
LoadFailures(i) ==
    /\ At(i, "record")
    /\ failures < MaxFailures
    /\ th' = [th EXCEPT ![i].tmp = failures, ![i].pc = "store"]
    /\ op' = [name |-> "load_failures", thread |-> i]
    /\ UNCHANGED <<now, cacheVars, clientVars, engineVars, pc, ret, waiting, inflight, ncalls>>

\* line 48, `self.failures += 1`: the write
StoreFailures(i) ==
    /\ At(i, "store")
    /\ failures' = th[i].tmp + 1
    /\ streak' = streak + 1
    /\ Goto(i, "stamp")
    /\ op' = [name |-> "store_failures", thread |-> i]
    /\ UNCHANGED <<now, cacheVars, engineVars, state, last_failure_time, sem,
                   pc, ret, waiting, inflight, ncalls>>

\* line 49: `self.last_failure_time = time.time()`
Stamp(i) ==
    /\ At(i, "stamp")
    /\ last_failure_time' = now
    /\ Goto(i, "trip")
    /\ op' = [name |-> "stamp", thread |-> i]
    /\ UNCHANGED <<now, cacheVars, engineVars, state, failures, sem, streak,
                   pc, ret, waiting, inflight, ncalls>>

\* lines 50-51, then the raise of line 38 or 45
Trip(i) ==
    /\ At(i, "trip")
    /\ state' = IF failures >= failure_threshold THEN STATE_OPEN ELSE state
    /\ th' = [th EXCEPT ![i] = IdleThread]
    /\ ret' = ClientOutcome(Breaker, th[i].resp, now).result
    /\ op' = [name |-> "trip", thread |-> i]
    /\ UNCHANGED <<now, cacheVars, engineVars, failures, last_failure_time,
                   sem, streak, pc, waiting, inflight, ncalls>>

\* line 54: `self.state = self.STATE_CLOSED`
CloseState(i) ==
    /\ At(i, "reset")
    /\ state' = STATE_CLOSED
    /\ Goto(i, "zero")
    /\ op' = [name |-> "close_state", thread |-> i]
    /\ UNCHANGED <<now, cacheVars, engineVars, failures, last_failure_time,
                   sem, streak, pc, ret, waiting, inflight, ncalls>>

\* line 55, `self.failures = 0`, then resp.json() of line 41: the body is
\* returned, or the decode error is raised, or it is caught as a
\* RequestException and _record_failure starts
ZeroFailures(i) ==
    /\ At(i, "zero")
    /\ failures' = 0
    /\ streak' = 0
    /\ IF th[i].resp.json = "RequestException"
       THEN /\ Goto(i, "record")
            /\ ret' = ret
       ELSE /\ th' = [th EXCEPT ![i] = IdleThread]
            /\ ret' = ClientOutcome(Breaker, th[i].resp, now).result
    /\ op' = [name |-> "zero_failures", thread |-> i]
    /\ UNCHANGED <<now, cacheVars, engineVars, state, last_failure_time, sem,
                   pc, waiting, inflight, ncalls>>

NextThreads ==
    \/ \E i \in Threads : Check(i)
    \/ \E i \in Threads : Cooldown(i)
    \/ \E i \in Threads : Enter(i)
    \/ \E i \in Threads, resp \in ThreadResponses : Respond(i, resp)
    \/ \E i \in Threads : LoadFailures(i)
    \/ \E i \in Threads : StoreFailures(i)
    \/ \E i \in Threads : Stamp(i)
    \/ \E i \in Threads : Trip(i)
    \/ \E i \in Threads : CloseState(i)
    \/ \E i \in Threads : ZeroFailures(i)
    \/ Tick

SpecThreads == Init /\ [][NextThreads]_vars

-----------------------------------------------------------------------------
(* The cache under concurrent callers, statement by statement.  th[i]      *)
(* holds the thread's position and the locals of its call: key, hash (the  *)
(* config_hash of a get), in (value, config_hash, ttl of a set), e (the    *)
(* entry a get has read) and lru (the key a set has popped).               *)

ThreadKeys == {k \in CacheKeys : k # CacheKey(Prepared[<<Mill, Hub>>].sorted, STRATEGY_PORTALS_ONLY)}

ThreadSetInput == <<[kind |-> "data", data |-> RouteClear], ConfigHash, 0>>

\* an exception leaves the call
Throws(i, what) ==
    /\ th' = [th EXCEPT ![i] = IdleThread]
    /\ ret' = Raised(<<what>>)

\* a call returns
Returns(i, value) ==
    /\ th' = [th EXCEPT ![i] = IdleThread]
    /\ ret' = value

\* get, line 11: `if key in self.cache`
GetTest(i, key, config_hash) ==
    /\ At(i, "idle")
    /\ ncalls < MaxCalls
    /\ ncalls' = ncalls + 1
    /\ IF key \in DOMAIN cache
       THEN /\ th' = [th EXCEPT ![i] = [pc |-> "read", key |-> key,
                                        hash |-> config_hash, e |-> None]]
            /\ ret' = ret
       ELSE Returns(i, None)
    /\ op' = [name |-> "get_test", thread |-> i, key |-> key]
    /\ UNCHANGED <<now, cacheVars, clientVars, engineVars, pc, waiting, inflight>>

\* get, lines 12-16: the entry is read, then tested against the clock and
\* the caller's hash
GetRead(i) ==
    /\ At(i, "read")
    /\ IF th[i].key \notin DOMAIN cache
       THEN Throws(i, "KeyError")
       ELSE LET e == cache[th[i].key] IN
            /\ th' = [th EXCEPT ![i].e = e,
                                ![i].pc = IF now > e.expiry \/ e.hash # th[i].hash
                                          THEN "remove" ELSE "refresh"]
            /\ ret' = ret
    /\ op' = [name |-> "get_read", thread |-> i]
    /\ UNCHANGED <<now, cacheVars, clientVars, engineVars, pc, waiting, inflight, ncalls>>

\* _remove, line 38: `if key in self.cache`
RemoveTest(i) ==
    /\ At(i, "remove")
    /\ Goto(i, IF th[i].key \in DOMAIN cache THEN "del" ELSE "order")
    /\ op' = [name |-> "remove_test", thread |-> i]
    /\ UNCHANGED <<now, cacheVars, clientVars, engineVars, pc, ret, waiting, inflight, ncalls>>

\* _remove, line 39: `del self.cache[key]`
RemoveDel(i) ==
    /\ At(i, "del")
    /\ IF th[i].key \in DOMAIN cache
       THEN /\ cache' = DictDel(cache, th[i].key)
            /\ Goto(i, "order")
            /\ ret' = ret
       ELSE /\ cache' = cache
            /\ Throws(i, "KeyError")
    /\ op' = [name |-> "remove_del", thread |-> i]
    /\ UNCHANGED <<now, order, clientVars, engineVars, pc, waiting, inflight, ncalls>>

\* _remove, line 40: `if key in self.order`; without the key get returns None
RemoveOrderTest(i) ==
    /\ At(i, "order")
    /\ IF InList(order, th[i].key)
       THEN /\ Goto(i, "unlist")
            /\ ret' = ret
       ELSE Returns(i, None)
    /\ op' = [name |-> "remove_order_test", thread |-> i]
    /\ UNCHANGED <<now, cacheVars, clientVars, engineVars, pc, waiting, inflight, ncalls>>

\* _remove, line 41: `self.order.remove(key)`, then get returns None
RemoveUnlist(i) ==
    /\ At(i, "unlist")
    /\ IF InList(order, th[i].key)
       THEN /\ order' = ListRemove(order, th[i].key)
            /\ Returns(i, None)
       ELSE /\ order' = order
            /\ Throws(i, "ValueError")
    /\ op' = [name |-> "remove_unlist", thread |-> i]
    /\ UNCHANGED <<now, cache, clientVars, engineVars, pc, waiting, inflight, ncalls>>

\* get, line 21: `self.order.remove(key)`
RefreshRemove(i) ==
    /\ At(i, "refresh")
    /\ IF InList(order, th[i].key)
       THEN /\ order' = ListRemove(order, th[i].key)
            /\ Goto(i, "reappend")
            /\ ret' = ret
       ELSE /\ order' = order
            /\ Throws(i, "ValueError")
    /\ op' = [name |-> "refresh_remove", thread |-> i]
    /\ UNCHANGED <<now, cache, clientVars, engineVars, pc, waiting, inflight, ncalls>>

\* get, lines 22-23: `self.order.append(key)`, `return value`
RefreshAppend(i) ==
    /\ At(i, "reappend")
    /\ order' = Append(order, th[i].key)
    /\ Returns(i, th[i].e.value)
    /\ op' = [name |-> "refresh_append", thread |-> i]
    /\ UNCHANGED <<now, cache, clientVars, engineVars, pc, waiting, inflight, ncalls>>

\* set, lines 27-28: the entry is written
SetPut(i, key, in) ==
    /\ At(i, "idle")
    /\ ncalls < MaxCalls
    /\ ncalls' = ncalls + 1
    /\ cache' = DictPut(cache, key, [hash |-> in[2], value |-> in[1],
                                     expiry |-> now + EffectiveTtl(in[3])])
    /\ th' = [th EXCEPT ![i] = [pc |-> "listed", key |-> key, in |-> in, lru |-> None]]
    /\ op' = [name |-> "set_put", thread |-> i, key |-> key]
    /\ UNCHANGED <<now, order, clientVars, engineVars, pc, ret, waiting, inflight>>

\* set, line 29: `if key in self.order`
SetTest(i) ==
    /\ At(i, "listed")
    /\ Goto(i, IF InList(order, th[i].key) THEN "dedup" ELSE "append")
    /\ op' = [name |-> "set_test", thread |-> i]
    /\ UNCHANGED <<now, cacheVars, clientVars, engineVars, pc, ret, waiting, inflight, ncalls>>

\* set, line 30: `self.order.remove(key)`
SetRemove(i) ==
    /\ At(i, "dedup")
    /\ IF InList(order, th[i].key)
       THEN /\ order' = ListRemove(order, th[i].key)
            /\ Goto(i, "append")
            /\ ret' = ret
       ELSE /\ order' = order
            /\ Throws(i, "ValueError")
    /\ op' = [name |-> "set_remove", thread |-> i]
    /\ UNCHANGED <<now, cache, clientVars, engineVars, pc, waiting, inflight, ncalls>>

\* set, line 31: `self.order.append(key)`
SetAppend(i) ==
    /\ At(i, "append")
    /\ order' = Append(order, th[i].key)
    /\ Goto(i, "full")
    /\ op' = [name |-> "set_append", thread |-> i]
    /\ UNCHANGED <<now, cache, clientVars, engineVars, pc, ret, waiting, inflight, ncalls>>

\* set, line 33: `if len(self.order) > self.capacity`; set returns if not
SetFull(i) ==
    /\ At(i, "full")
    /\ IF Len(order) > Capacity
       THEN /\ Goto(i, "pop")
            /\ ret' = ret
       ELSE Returns(i, None)
    /\ op' = [name |-> "set_full", thread |-> i]
    /\ UNCHANGED <<now, cacheVars, clientVars, engineVars, pc, waiting, inflight, ncalls>>

\* set, line 34: `lru = self.order.pop(0)`
SetPop(i) ==
    /\ At(i, "pop")
    /\ IF order # <<>>
       THEN /\ order' = Tail(order)
            /\ th' = [th EXCEPT ![i].lru = Head(order), ![i].pc = "evict"]
            /\ ret' = ret
       ELSE /\ order' = order
            /\ Throws(i, "IndexError")
    /\ op' = [name |-> "set_pop", thread |-> i]
    /\ UNCHANGED <<now, cache, clientVars, engineVars, pc, waiting, inflight, ncalls>>

\* set, line 35: `del self.cache[lru]`, and set returns
SetEvict(i) ==
    /\ At(i, "evict")
    /\ IF th[i].lru \in DOMAIN cache
       THEN /\ cache' = DictDel(cache, th[i].lru)
            /\ Returns(i, None)
       ELSE /\ cache' = cache
            /\ Throws(i, "KeyError")
    /\ op' = [name |-> "set_evict", thread |-> i]
    /\ UNCHANGED <<now, order, clientVars, engineVars, pc, waiting, inflight, ncalls>>

NextCacheThreads ==
    \/ \E i \in Threads, key \in ThreadKeys, h \in {ConfigHash, StaleHash} : GetTest(i, key, h)
    \/ \E i \in Threads : GetRead(i)
    \/ \E i \in Threads : RemoveTest(i)
    \/ \E i \in Threads : RemoveDel(i)
    \/ \E i \in Threads : RemoveOrderTest(i)
    \/ \E i \in Threads : RemoveUnlist(i)
    \/ \E i \in Threads : RefreshRemove(i)
    \/ \E i \in Threads : RefreshAppend(i)
    \/ \E i \in Threads, key \in ThreadKeys : SetPut(i, key, ThreadSetInput)
    \/ \E i \in Threads : SetTest(i)
    \/ \E i \in Threads : SetRemove(i)
    \/ \E i \in Threads : SetAppend(i)
    \/ \E i \in Threads : SetFull(i)
    \/ \E i \in Threads : SetPop(i)
    \/ \E i \in Threads : SetEvict(i)

SpecCacheThreads == Init /\ [][NextCacheThreads]_vars

-----------------------------------------------------------------------------
(* The preparation of a request on its own: get_optimized_route up to the  *)
(* strategy loop, then the transformer for a strategy of the list          *)

\* sort, zone guard, strategy list
Prepare(stops) ==
    /\ pc = "idle"
    /\ op.name = "init"
    /\ LET sorted == SortStops(stops)
           guard  == validate_stops_access(sorted)
       IN  /\ op' = [name |-> "prepare", stops |-> stops]
           /\ ret' = guard
           /\ req' = sorted
           /\ strategies' = IF guard = None THEN SelectStrategies(sorted) ELSE <<>>
           /\ pc' = IF guard = None THEN "prepared" ELSE "idle"
    /\ UNCHANGED <<callerVars, now, cacheVars, clientVars, idx, last_error, start_time,
                   failedAt, nreq>>

\* _inject_portals for the i-th strategy of the list
Inject(i) ==
    /\ pc = "prepared"
    /\ i \in 1..Len(strategies)
    /\ op' = [name |-> "inject", strategy |-> strategies[i],
              cache_key |-> CacheKey(req, strategies[i])]
    /\ ret' = [kind |-> "coords", coords |-> inject_portals(req, strategies[i])]
    /\ UNCHANGED <<callerVars, now, cacheVars, clientVars, pc, req, strategies, idx,
                   last_error, start_time, failedAt, nreq>>

NextPrepare ==
    \/ \E stops \in StopLists : Prepare(stops)
    \/ \E i \in 1..3 : Inject(i)

SpecPrepare == Init /\ [][NextPrepare]_vars

-----------------------------------------------------------------------------
(* The engine serving one request at a time *)

\* get_optimized_route returns or raises: its locals are gone
Finish(result) ==
    /\ ret' = result
    /\ pc' = "idle"
    /\ req' = <<>>
    /\ strategies' = <<>>
    /\ idx' = 0
    /\ last_error' = <<>>
    /\ start_time' = 0

\* the loop's continue as it would be if a failed strategy were tried again
Continue_SameStrategy(err) ==
    /\ last_error' = err
    /\ idx' = idx
    /\ pc' = "loop"
    /\ UNCHANGED <<ret, req, strategies, start_time>>

\* the loop's continue as it would be if the reason were not recorded
Continue_KeepsOldError(err) ==
    IF idx + 1 > Len(strategies)
    THEN Finish(Raised(<<"All strategies failed. Last error: ">> \o last_error))
    ELSE /\ last_error' = last_error
         /\ idx' = idx + 1
         /\ pc' = "loop"
         /\ UNCHANGED <<ret, req, strategies, start_time>>

\* the loop as it would go on if no pass recorded its reason
Continue_ForgetsReason(err) ==
    IF idx + 1 > Len(strategies)
    THEN Finish(Raised(<<"All strategies failed. Last error: ", "Unknown Error">>))
    ELSE /\ last_error' = <<"Unknown Error">>
         /\ idx' = idx + 1
         /\ pc' = "loop"
         /\ UNCHANGED <<ret, req, strategies, start_time>>

\* the loop goes on to the next strategy, or runs out and raises
Continue(err) ==
    IF idx + 1 > Len(strategies)
    THEN Finish(Raised(<<"All strategies failed. Last error: ">> \o err))
    ELSE /\ last_error' = err
         /\ idx' = idx + 1
         /\ pc' = "loop"
         /\ UNCHANGED <<ret, req, strategies, start_time>>

\* the timeout guard as it would be with the budget taken for milliseconds
BudgetExceeded_Millis(t, start) == (t - start) > TIME_BUDGET * 1000

\* the timeout guard at the top of the loop, at time t
BudgetExceeded(t, start) == t - start > TIME_BUDGET

\* get_optimized_route up to the strategy loop
Request(stops) ==
    /\ pc = "idle"
    /\ nreq < MaxRequests
    /\ nreq' = nreq + 1
    /\ LET p == Prepared[stops] IN
       /\ op' = [name |-> "request", stops |-> p.sorted]
       /\ IF p.guard # None
          THEN Finish(p.guard)
          ELSE /\ ret' = None
               /\ pc' = "loop"
               /\ req' = p.sorted
               /\ strategies' = p.strategies
               /\ idx' = 1
               /\ last_error' = <<"Unknown Error">>
               /\ start_time' = now
    /\ UNCHANGED <<callerVars, now, cacheVars, clientVars, failedAt>>

\* one pass of the strategy loop up to the upstream call
Iterate ==
    /\ pc = "loop"
    /\ LET strategy  == strategies[idx]
           cache_key == CacheKey(req, strategy)
           got       == CacheGet(TheCache, cache_key, ConfigHash, now)
           chk       == CircuitCheck(Breaker, now)
       IN  /\ op' = [name |-> "iterate"]
           /\ IF BudgetExceeded(now, start_time)
              THEN /\ Finish(Raised(<<"Routing Timeout: Exceeded ", "8.0", "s budget">>))
                   /\ UNCHANGED <<cacheVars, clientVars>>
              ELSE /\ cache' = got.c.cache
                   /\ order' = got.c.order
                   /\ IF got.ret.kind = "raise"
                      THEN /\ Finish(got.ret)
                           /\ UNCHANGED clientVars
                      ELSE IF got.ret # None
                      THEN /\ UNCHANGED clientVars
                           /\ IF got.ret.kind = "error"
                              THEN Continue(last_error)
                              ELSE Finish([kind |-> "route", data |-> got.ret.data])
                      ELSE /\ state' = chk.b.state
                           /\ UNCHANGED <<failures, last_failure_time, streak>>
                           /\ IF chk.pass
                              THEN /\ sem > 0
                                   /\ sem' = sem - 1
                                   /\ pc' = "http"
                                   /\ UNCHANGED <<ret, req, strategies, idx,
                                                  last_error, start_time>>
                              ELSE /\ sem' = sem
                                   /\ Continue(CircuitOpenError.msg)
    /\ UNCHANGED <<callerVars, now, failedAt, nreq>>

\* the upstream call returns and the loop body runs to its end
HttpReturn(resp) ==
    /\ pc = "http"
    /\ IsFailure(resp) => failures < MaxFailures
    /\ sem' = sem + 1
    /\ LET strategy  == strategies[idx]
           cache_key == CacheKey(req, strategy)
           out       == ClientOutcome(Breaker, resp, now)
           verdict   == Verdicts[resp]
           stored    == IF verdict.ok
                        THEN CacheSet(TheCache, cache_key,
                                      [kind |-> "data", data |-> out.result.data],
                                      ConfigHash, 0, now)
                        ELSE CacheSet(TheCache, cache_key,
                                      [kind |-> "error", error |-> verdict.reason],
                                      ConfigHash, NEGATIVE_TTL, now)
       IN  /\ op' = [name |-> "http_return", resp |-> resp]
           /\ state' = out.b.state
           /\ failures' = out.b.failures
           /\ last_failure_time' = out.b.last_failure_time
           /\ streak' = IF IsFailure(resp) THEN streak + 1 ELSE 0
           /\ IF out.result.kind = "raise"
              THEN /\ Continue(out.result.msg)
                   /\ UNCHANGED <<cacheVars, failedAt>>
              ELSE /\ cache' = stored.c.cache
                   /\ order' = stored.c.order
                   /\ IF verdict.ok
                      THEN /\ Finish([kind |-> "route", data |-> out.result.data])
                           /\ failedAt' = DictDel(failedAt, cache_key)
                      ELSE /\ failedAt' = DictPut(failedAt, cache_key, now)
                           /\ Continue(verdict.reason)
    /\ UNCHANGED <<callerVars, now, nreq>>

Next ==
    \/ \E stops \in Requests : Request(stops)
    \/ Iterate
    \/ \E resp \in Responses : HttpReturn(resp)
    \/ Tick

Spec == Init /\ [][Next]_vars

-----------------------------------------------------------------------------
(* Properties *)

ForbiddenZones == {i \in 1..Len(Zones) : Zones[i].rule = "FORBIDDEN_SEGMENT"}

\* the cache key of the strategy the loop stands at
CurrentKey == CacheKey(req, strategies[idx])

\* an entry the cache would serve at this instant for the current config
Live(key) ==
    /\ key \in DOMAIN cache
    /\ now <= cache[key].expiry
    /\ cache[key].hash = ConfigHash

\* a step of the strategy loop that gets as far as the cache lookup
LookupStep ==
    /\ pc = "loop"
    /\ op'.name = "iterate"
    /\ now - start_time <= TIME_BUDGET

\* C1: every route get_optimized_route returns, fresh or from the cache, is
\* accepted by validate under the current configuration, and its geometry
\* intersects no FORBIDDEN_SEGMENT zone.
C1_ReturnedRouteCompliant ==
    ret.kind = "route" =>
        /\ ret.data.routes # <<>>
        /\ validate(ret.data).ok
        /\ \A i \in ForbiddenZones :
              ~route_intersects_polygon(ret.data.routes[1].geometry,
                                        Zones[i].geometry)

\* C1 witness: the second request was answered with a route out of the cache
C1_Witness ==
    /\ ret.kind = "route"
    /\ op.name = "iterate"
    /\ nreq = 2

\* C2: once failure_threshold calls in a row have failed the breaker is OPEN,
\* and a call made while it is OPEN and the cooldown is not over raises
\* "Circuit Open" with no permit taken and no request sent.
C2_OpensAfterThreshold ==
    /\ [](pc = "idle" /\ streak >= failure_threshold => state = STATE_OPEN)
    /\ [][(/\ pc = "idle"
           /\ op'.name = "get_route"
           /\ state = STATE_OPEN
           /\ now - last_failure_time <= cooldown)
          => (/\ ret' = CircuitOpenError
              /\ pc' = "idle"
              /\ sem' = sem)]_vars

\* C2 witness: three failures in a row, then a call rejected
C2_Witness ==
    /\ streak = failure_threshold
    /\ state = STATE_OPEN
    /\ op.name = "get_route"
    /\ ret = CircuitOpenError
    /\ sem = SemPermits

\* C3: while OPEN a call within the cooldown is rejected; a call after the
\* cooldown moves to HALF_OPEN and is sent; the trial succeeding closes the
\* breaker with failures = 0.
C3_CooldownThenTrial ==
    /\ [][(/\ pc = "idle" /\ op'.name = "get_route" /\ state = STATE_OPEN
           /\ now - last_failure_time <= cooldown)
          => (ret' = CircuitOpenError /\ pc' = "idle" /\ state' = STATE_OPEN)]_vars
    /\ [][(/\ pc = "idle" /\ op'.name = "get_route" /\ state = STATE_OPEN
           /\ now - last_failure_time > cooldown)
          => (state' = STATE_HALF_OPEN /\ pc' = "call" /\ sem' = sem - 1)]_vars
    /\ [][(/\ pc = "call" /\ op'.name = "get_route_return"
           /\ state = STATE_HALF_OPEN /\ ret'.kind = "json")
          => (state' = STATE_CLOSED /\ failures' = 0)]_vars

\* C3 witness: the trial came back with an answer and the breaker closed
C3_Witness ==
    /\ op.name = "get_route_return"
    /\ op.was = STATE_HALF_OPEN
    /\ ret.kind = "json"
    /\ state = STATE_CLOSED
    /\ failures = 0

\* C4: the HALF_OPEN trial failing puts the breaker back to OPEN with
\* last_failure_time at that instant, and calls are rejected until the
\* cooldown counted from it is over.
C4_TrialFailureReopens ==
    /\ [][(/\ pc = "call" /\ op'.name = "get_route_return"
           /\ state = STATE_HALF_OPEN /\ IsFailure(op'.resp))
          => (/\ ret'.kind = "raise"
              /\ state' = STATE_OPEN
              /\ last_failure_time' = now)]_vars
    /\ [][(/\ pc = "idle" /\ op'.name = "get_route" /\ state = STATE_OPEN
           /\ now <= last_failure_time + cooldown)
          => (ret' = CircuitOpenError /\ pc' = "idle")]_vars

\* C4 witness: the trial failed, and the call after it was rejected
C4_Witness ==
    /\ streak > failure_threshold
    /\ state = STATE_OPEN
    /\ op.name = "get_route"
    /\ ret = CircuitOpenError
    /\ last_failure_time > cooldown

\* a stop with no portal inside the polygon of a FORBIDDEN_SEGMENT zone
Unreachable(stop) ==
    /\ ~IsAllowed(stop.name)
    /\ \E i \in ForbiddenZones :
          point_in_polygon(<<stop.lat, stop.lon>>, Zones[i].geometry)

\* C5: a request with a stop that has no portal and lies inside any
\* FORBIDDEN_SEGMENT zone fails with the configuration error before the
\* strategy loop: it gets no strategy list, no cache lookup, no upstream call.
C5_GuardCoversEveryForbiddenZone ==
    (op.name = "prepare" /\ \E i \in 1..Len(op.stops) : Unreachable(op.stops[i]))
        => (/\ ret.kind = "raise"
            /\ pc = "idle"
            /\ strategies = <<>>)

C7_PositiveHitReturns ==
    [][(LookupStep /\ Live(CurrentKey) /\ cache[CurrentKey].value.kind = "data") =>
        /\ ret' = [kind |-> "route", data |-> cache[CurrentKey].value.data]
        /\ pc' = "idle"
        /\ sem' = sem
        /\ cache' = cache
        /\ <<state, failures, last_failure_time>>' = <<state, failures, last_failure_time>>]_vars

\* C7 witness: a route served from an entry at its expiry instant
C7_Witness ==
    /\ op.name = "iterate"
    /\ ret.kind = "route"
    /\ sem = SemPermits
    /\ \E k \in DOMAIN cache : cache[k].value = [kind |-> "data", data |-> ret.data]
                               /\ cache[k].expiry = now


\* the loop skips the strategy it stands at: nothing is sent, last_error
\* stays, and the request raises with it when no strategy is left
Skips ==
    /\ sem' = sem
    /\ pc' # "http"
    /\ <<state, failures, last_failure_time>>' = <<state, failures, last_failure_time>>
    /\ IF idx < Len(strategies)
       THEN pc' = "loop" /\ idx' = idx + 1 /\ last_error' = last_error
       ELSE pc' = "idle"
            /\ ret' = Raised(<<"All strategies failed. Last error: ">> \o last_error)

\* C8 as stated: after a strategy's route failed validation, a request that
\* reaches the same key within the negative TTL skips the strategy.
C8_SkipsWithinNegativeTtl ==
    [][(/\ LookupStep
        /\ CurrentKey \in DOMAIN failedAt
        /\ now - failedAt[CurrentKey] <= NEGATIVE_TTL)
       => Skips]_vars

\* C8 amended: the same while the negative entry is still held (LRU eviction
\* can drop it earlier); a negative entry expires NEGATIVE_TTL after the
\* failure, which is sooner than a positive entry would; once it has expired
\* the lookup drops it and the strategy goes to the client again, which sends
\* it unless the breaker rejects the call.
C8_SkipsWhileNegativeEntryHeld ==
    /\ [][(LookupStep /\ Live(CurrentKey) /\ cache[CurrentKey].value.kind = "error")
          => Skips]_vars
    /\ [][(/\ LookupStep
           /\ CurrentKey \in DOMAIN cache
           /\ cache[CurrentKey].value.kind = "error"
           /\ now > cache[CurrentKey].expiry)
          => (/\ CurrentKey \notin DOMAIN cache'
              /\ IF CircuitCheck(Breaker, now).pass
                 THEN pc' = "http" /\ sem' = sem - 1
                 ELSE pc' # "http" /\ sem' = sem)]_vars
    /\ [](\A k \in DOMAIN failedAt :
            k \in DOMAIN cache =>
               /\ cache[k].value.kind = "error"
               /\ cache[k].expiry = failedAt[k] + NEGATIVE_TTL
               /\ cache[k].expiry < failedAt[k] + default_ttl)

\* C8 witness: the second request met the negative entry of its first
\* strategy and went on to the second without recording anything
C8_Witness ==
    /\ op.name = "iterate"
    /\ nreq = 2
    /\ pc = "loop"
    /\ idx = 2
    /\ last_error = <<"Unknown Error">>
    /\ sem = SemPermits
    /\ Live(CacheKey(req, strategies[1]))
    /\ cache[CacheKey(req, strategies[1])].value.kind = "error"

\* what get(key, h) returns when "unexpired" means now before, or up to, expiry
GetAnswers(strict) ==
    op'.name = "get" =>
        LET k == op'.key IN
        IF /\ k \in DOMAIN cache
           /\ (IF strict THEN now < cache[k].expiry ELSE now <= cache[k].expiry)
           /\ cache[k].hash = op'.hash
        THEN ret' = cache[k].value
        ELSE ret' = None

\* C9 as stated: get returns the stored value iff the entry exists,
\* now < expiresAt and the hashes agree.
C9_HitIffBeforeExpiry == [][GetAnswers(TRUE)]_vars

\* C9 amended: get returns the stored value iff the entry exists,
\* now <= expiresAt and the hashes agree (else None); so a get under another
\* hash misses before the TTL is over.
C9_HitIffNotPastExpiry == [][GetAnswers(FALSE)]_vars

\* C9 witness: a hit at the expiry instant
C9_Witness ==
    /\ op.name = "get"
    /\ ret.kind = "data"
    /\ op.key \in DOMAIN cache
    /\ cache[op.key].expiry = now

\* C10: at most Capacity entries, and the recency list holds exactly the keys
\* of the entry map, each once.
C10_BoundedAndConsistent ==
    /\ Cardinality(DOMAIN cache) <= Capacity
    /\ {order[i] : i \in 1..Len(order)} = DOMAIN cache
    /\ Len(order) = Cardinality(DOMAIN cache)

\* C10 witness: a set evicted the least recently used key of a full cache
C10_Witness ==
    /\ op.name = "set"
    /\ op.evicted # None
    /\ Len(order) = Capacity

\* the message get_route raises for a failed call
UpstreamErrorText(resp) ==
    IF resp.kind = "neterr"
    THEN <<"OSRM Connection Error: ", "RequestException">>
    ELSE <<"OSRM Server Error ", StatusText(resp.status)>>

\* the loop records err for the strategy it stands at and goes on, raising
\* the aggregate error with it when no strategy is left
Advances(err) ==
    IF idx < Len(strategies)
    THEN pc' = "loop" /\ idx' = idx + 1 /\ last_error' = err
    ELSE pc' = "idle"
         /\ ret' = Raised(<<"All strategies failed. Last error: ">> \o err)

\* every entry of the cache after the step was there, unchanged, before it
NothingWritten ==
    \A k \in DOMAIN cache' : k \in DOMAIN cache /\ cache'[k] = cache[k]

\* C11: when the upstream call of a strategy raises (5xx, network error,
\* circuit open) nothing is written to the cache, neither a positive nor a
\* negative entry, the error becomes last_error and the loop goes on to the
\* next strategy (raising with that error when none is left).
C11_UpstreamErrorNotCached ==
    /\ [][(pc = "http" /\ op'.name = "http_return" /\ IsFailure(op'.resp))
          => (/\ cache' = cache
              /\ order' = order
              /\ Advances(UpstreamErrorText(op'.resp)))]_vars
    /\ [][(/\ LookupStep
           /\ ~Live(CurrentKey)
           /\ state = STATE_OPEN
           /\ now - last_failure_time <= cooldown)
          => (/\ NothingWritten
              /\ CurrentKey \notin DOMAIN cache'
              /\ sem' = sem
              /\ Advances(CircuitOpenError.msg))]_vars

\* C11 witness: the first strategy's call came back 503 while the cache held
\* an entry: the entry is as it was and the loop stands at the second strategy
C11_Witness ==
    /\ op.name = "http_return"
    /\ op.resp.status = 503
    /\ pc = "loop"
    /\ idx = 2
    /\ last_error = <<"OSRM Server Error ", "503">>
    /\ Cardinality(DOMAIN cache) = 1
    /\ CacheKey(req, strategies[1]) \notin DOMAIN cache

\* the reasons a strategy can fail with: the validator's, and the client's
FailureReasons ==
    {Verdicts[r].reason : r \in {x \in Responses : ~Verdicts[x].ok}}
    \cup {ClientOutcome(Breaker, r, now).result.msg :
             r \in {x \in Responses : ~Answered(x)}}
    \cup {CircuitOpenError.msg}

\* get_optimized_route has raised the aggregate error
Exhausted ==
    /\ ret.kind = "raise"
    /\ Head(ret.msg) = "All strategies failed. Last error: "

StepReason ==
    IF op'.name = "http_return"
    THEN IF Answered(op'.resp) THEN validate(op'.resp.body).reason
         ELSE ClientOutcome(Breaker, op'.resp, now).result.msg
    ELSE IF Live(CurrentKey) THEN last_error
    ELSE CircuitOpenError.msg

C13_BudgetCheckedBetweenStrategies ==
    /\ [][(pc = "loop" /\ op'.name = "iterate" /\ now - start_time > TIME_BUDGET)
          => (/\ ret' = Raised(<<"Routing Timeout: Exceeded ", "8.0", "s budget">>)
              /\ pc' = "idle"
              /\ cache' = cache /\ order' = order
              /\ sem' = sem
              /\ <<state, failures, last_failure_time>>' =
                    <<state, failures, last_failure_time>>)]_vars
    /\ [][(pc = "loop" /\ op'.name = "iterate" /\ now - start_time <= TIME_BUDGET)
          => ~(ret'.kind = "raise" /\ Head(ret'.msg) = "Routing Timeout: Exceeded ")]_vars
    /\ [][(pc = "http" /\ op'.name = "http_return")
          => (/\ ~(ret'.kind = "raise" /\ Head(ret'.msg) = "Routing Timeout: Exceeded ")
              /\ (Answered(op'.resp) /\ validate(op'.resp.body).ok
                    => ret' = [kind |-> "route", data |-> op'.resp.body]))]_vars

\* C13 witness: the first of three strategies failed validation after a call
\* that outlasted the budget, and the request ended with the timeout error,
\* two strategies untried
C13_Witness ==
    /\ op.name = "iterate"
    /\ ret = Raised(<<"Routing Timeout: Exceeded ", "8.0", "s budget">>)
    /\ nreq = 1
    /\ Cardinality(DOMAIN failedAt) = 1
    /\ Cardinality(DOMAIN cache) = 1

\* the output of the transformer without the via point of the strategy
WithoutVia(coords, strategy) ==
    IF strategy = STRATEGY_PORTALS_ONLY THEN coords
    ELSE LET mid == Max({1, (Len(coords) - 1) \div 2})
         IN  SubSeq(coords, 1, mid) \o SubSeq(coords, mid + 2, Len(coords))

\* an intermediate stop whose portal has the given type
IntermediateOfType(stops, i, type) ==
    /\ 1 < i /\ i < Len(stops)
    /\ MatchPortal(stops[i].name) # None
    /\ MatchPortal(stops[i].name).type = type

\* how many coordinates stop i is to contribute: three for an intermediate
\* stop of a STANDARD portal, one for any other
Width(stops, i) == IF IntermediateOfType(stops, i, "STANDARD") THEN 3 ELSE 1

\* the coordinates of the stops before stop i
RECURSIVE WidthBefore(_, _)
WidthBefore(stops, i) ==
    IF i <= 1 THEN 0 ELSE WidthBefore(stops, i - 1) + Width(stops, i - 1)

\* C20: an intermediate stop matched to an ACCESS_CONTROLLED_STOP portal
\* contributes exactly one coordinate to the transformer's output: the
\* portal's entry gate, as printed (five decimals), and not the stop's own
\* coordinate; the next stop's contribution follows it directly.
C20_IntermediateAccessControlledIsGate ==
    op.name = "inject" =>
        LET out == WithoutVia(ret.coords, op.strategy) IN
        /\ Len(out) = WidthBefore(req, Len(req) + 1)
        /\ \A i \in 1..Len(req) :
              IntermediateOfType(req, i, "ACCESS_CONTROLLED_STOP") =>
                 LET gate == MatchPortal(req[i].name).entry_gate
                     at   == WidthBefore(req, i) + 1
                 IN  /\ out[at] = <<Round5(gate.lon), Round5(gate.lat)>>
                     /\ out[at] # <<req[i].lon, req[i].lat>>
                     /\ out[at] # <<Round5(req[i].lon), Round5(req[i].lat)>>
                     /\ WidthBefore(req, i + 1) = at

\* C20 witness: Apt between two stops, sent with the bypass via point
C20_Witness ==
    /\ op.name = "inject"
    /\ op.strategy = STRATEGY_PLUS_HIGHWAY
    /\ Len(req) = 3
    /\ req[2] = Apt
    /\ Len(ret.coords) = 4
    /\ ret.coords[3] = <<80, 80>>


\* the step in which requests.get comes back with a 4xx status
ClientErrorStep ==
    /\ pc = "call"
    /\ op'.name = "get_route_return"
    /\ op'.resp.kind = "http"
    /\ op'.resp.status \in 400..499

\* C18: a 4xx answer never trips the breaker: whatever the circuit state, the
\* call that receives it does not raise failures and does not leave the
\* breaker OPEN.
C18_ClientErrorNeverCounts ==
    [][ClientErrorStep => (failures' <= failures /\ state' # STATE_OPEN)]_vars

\* C19: a 4xx answer makes get_route raise an error that is not the circuit
\* error; its body is never what get_route returns.
C19_ClientErrorRaises ==
    [][ClientErrorStep => (ret'.kind = "raise" /\ ret' # CircuitOpenError)]_vars


\* C14: at most 20 upstream calls are in flight, whatever the circuit state,
\* and no permit leaks: the permits left and the calls in flight always add
\* up to 20, however the calls ended.
C14_InFlightBoundedNoLeak ==
    /\ inflight <= SemPermits
    /\ sem >= 0
    /\ sem + inflight = SemPermits

\* C14 witness: every permit taken with a caller held back at the semaphore,
\* while the breaker is on trial and after calls ended in failure
C14_Witness ==
    /\ inflight = SemPermits
    /\ waiting > 0
    /\ sem = 0
    /\ state = STATE_HALF_OPEN
    /\ failures >= failure_threshold


\* a thread inside `_record_failure` or `_reset_circuit`
Updating(i) == th[i].pc \in {"record", "store", "stamp", "trip", "reset", "zero"}

\* the trial call is in flight: the thread whose circuit check made the
\* breaker HALF_OPEN is at the semaphore or inside requests.get
TrialInFlight == \E j \in Threads : th[j].pc \in {"sem", "get"} /\ th[j].trial

\* C15: one trial only while HALF_OPEN: a call that arrives while the state
\* is HALF_OPEN and the trial is in flight is rejected, not sent upstream.
C15_OneTrialWhileHalfOpen ==
    [][(/\ op'.name = "check"
        /\ state = STATE_HALF_OPEN
        /\ TrialInFlight)
       => (/\ th'[op'.thread].pc \notin {"sem", "get"}
           /\ \A j \in Threads : th'[j].pc \in {"sem", "get"} => th'[j].trial)]_vars

\* C17: failures are counted without loss: once every _record_failure and
\* _reset_circuit under way has finished, failures is the number of failures
\* recorded since the last reset, and with failure_threshold of them or more
\* the breaker is not CLOSED.
C17_NoLostIncrement ==
    (\A i \in Threads : ~Updating(i))
        => (/\ failures = streak
            /\ streak >= failure_threshold => state # STATE_CLOSED)


\* C16: concurrent get and set, eviction included, never raise an internal
\* error, and whenever no call is under way the recency list holds exactly
\* the keys of the entry map, each once.
C16_ConcurrentCacheConsistent ==
    /\ ret.kind # "raise"
    /\ (\A i \in Threads : th[i].pc = "idle")
          => (/\ {order[k] : k \in 1..Len(order)} = DOMAIN cache
              /\ Len(order) = Cardinality(DOMAIN cache))


\* a gate as the transformer prints it, (lon, lat)
GateCoord(gate) == Formatted(gate.lon, gate.lat)

\* C21: a stop matched to a portal of either type contributes one coordinate
\* as origin, its portal's exit gate, and one as destination, its portal's
\* entry gate.
C21_EndpointsUseGates ==
    op.name = "inject" =>
        LET out   == WithoutVia(ret.coords, op.strategy)
            n     == Len(req)
            first == MatchPortal(req[1].name)
            last  == MatchPortal(req[n].name)
        IN  /\ Len(out) = WidthBefore(req, n + 1)
            /\ first # None => out[1] = GateCoord(first.exit_gate)
            /\ (n > 1 /\ last # None) => out[Len(out)] = GateCoord(last.entry_gate)

\* the coordinates that can stand for stop i: its own and its portal's gates
CoordsOf(stops, i) ==
    LET portal == MatchPortal(stops[i].name) IN
    {Formatted(stops[i].lon, stops[i].lat)}
        \cup (IF portal = None THEN {}
              ELSE {GateCoord(portal.entry_gate), GateCoord(portal.exit_gate)})

\* the three coordinates of the STANDARD portal of stop i stand at p, p + 1
\* and p + 2 of the list
SandwichAt(coords, stops, i, p) ==
    LET portal == MatchPortal(stops[i].name) IN
    /\ p + 2 <= Len(coords)
    /\ coords[p] = GateCoord(portal.entry_gate)
    /\ coords[p + 1] = Formatted(stops[i].lon, stops[i].lat)
    /\ coords[p + 2] = GateCoord(portal.exit_gate)

\* C22 as stated: in the transformer's output an intermediate stop of a
\* STANDARD portal stands as three consecutive coordinates, entry gate, stop,
\* exit gate.
C22_SandwichConsecutiveInOutput ==
    op.name = "inject" =>
        \A i \in 1..Len(req) :
            IntermediateOfType(req, i, "STANDARD") =>
                \E p \in 1..Len(ret.coords) : SandwichAt(ret.coords, req, i, p)

\* C22 amended: the three coordinates are consecutive in the list built from
\* the stops, at the place that follows the contributions of the stops
\* before; that list holds the contributions of all stops in stop order, and
\* the output is that list with the strategy's via point, if any, put in.
C22_SandwichBeforeViaPoint ==
    op.name = "inject" =>
        LET out == WithoutVia(ret.coords, op.strategy) IN
        /\ Len(out) = WidthBefore(req, Len(req) + 1)
        /\ \A i \in 1..Len(req) :
              /\ \A k \in (WidthBefore(req, i) + 1)..WidthBefore(req, i + 1) :
                    out[k] \in CoordsOf(req, i)
              /\ IntermediateOfType(req, i, "STANDARD") =>
                    SandwichAt(out, req, i, WidthBefore(req, i) + 1)
        /\ op.strategy = STRATEGY_PORTALS_ONLY => ret.coords = out
        /\ op.strategy # STRATEGY_PORTALS_ONLY =>
              /\ Len(ret.coords) = Len(out) + 1
              /\ \E p \in 1..Len(ret.coords) :
                    ret.coords[p] \in {PalayamVia, BypassVia}

\* C22 witness: Pier between two stops, sent with the bypass via point, which
\* stands between the entry gate and the stop
C22_Witness ==
    /\ op.name = "inject"
    /\ op.strategy = STRATEGY_PLUS_HIGHWAY
    /\ req = <<Nor, Pier, Sou>>
    /\ ret.coords = << <<50, 70>>, <<30, 50>>, BypassVia, <<50, 50>>, <<70, 50>>, <<50, 30>> >>


\* the closed interval [lo1, hi1] meets [lo2, hi2], end points included
Meets(lo1, hi1, lo2, hi2) == lo1 <= hi2 /\ lo2 <= hi1

\* the box of the stops meets the box of the sensitive zone, borders included
BoxesMeet(stops) ==
    LET lats  == {stops[i].lat : i \in 1..Len(stops)}
        lons  == {stops[i].lon : i \in 1..Len(stops)}
        zone  == BeachZone.geometry
        zlats == {zone[i][1] : i \in 1..Len(zone)}
        zlons == {zone[i][2] : i \in 1..Len(zone)}
    IN  /\ Meets(Min(lats), Max(lats), Min(zlats), Max(zlats))
        /\ Meets(Min(lons), Max(lons), Min(zlons), Max(zlons))

\* the boxes share border points only
BoxesTouch(stops) ==
    /\ BoxesMeet(stops)
    /\ LET lats == {stops[i].lat : i \in 1..Len(stops)}
           lons == {stops[i].lon : i \in 1..Len(stops)}
       IN  \/ Min(lats) = 60 \/ Max(lats) = 40 \/ Min(lons) = 60 \/ Max(lons) = 40

\* C23: the strategy list of a request that passes the zone guard is
\* [PORTALS_ONLY] when the box of its stops does not meet the box of the
\* sensitive zone, and [PORTALS_PLUS_HIGHWAY, PORTALS_PLUS_CITY, PORTALS_ONLY]
\* when it does, touching included; PORTALS_ONLY is always there, and last.
C23_StrategyListByBoxes ==
    (op.name = "prepare" /\ ret = None) =>
        /\ strategies = IF BoxesMeet(op.stops)
                        THEN <<STRATEGY_PLUS_HIGHWAY, STRATEGY_PLUS_CITY, STRATEGY_PORTALS_ONLY>>
                        ELSE <<STRATEGY_PORTALS_ONLY>>
        /\ strategies[Len(strategies)] = STRATEGY_PORTALS_ONLY

\* C23 witness: a request whose box touches the zone's box along lat = 60
\* gets the three strategies
C23_Witness ==
    /\ op.name = "prepare"
    /\ ret = None
    /\ req = <<Nor, Toll>>
    /\ BoxesTouch(req)
    /\ Len(strategies) = 3


\* the pass of the loop in which get_route raises the circuit error: the
\* budget is not used up, the lookup misses and the breaker rejects the call
RejectedStep ==
    /\ pc = "loop"
    /\ op'.name = "iterate"
    /\ ~BudgetExceeded(now, start_time)
    /\ CacheGet(TheCache, CurrentKey, ConfigHash, now).ret = None
    /\ ~CircuitCheck(Breaker, now).pass

\* C24: a request whose upstream attempt is rejected with the circuit error
\* ends there: the strategies left are not tried, and the request fails with
\* the circuit error as its reason.
C24_CircuitOpenEndsRequest ==
    [][RejectedStep =>
          (/\ pc' = "idle"
           /\ ret'.kind = "raise"
           /\ \E k \in 1..Len(ret'.msg) : ret'.msg[k] = CircuitOpenError.msg[1])]_vars

-----------------------------------------------------------------------------
(* The /api/route handler (src/src/app.py) *)

\* the words get_safe_route looks for in str(e), spelled out
CircuitOpenWord == <<"C","i","r","c","u","i","t"," ","O","p","e","n">>
RestrictedWord  == <<"R","e","s","t","r","i","c","t","e","d">>
ViolationWord   == <<"V","i","o","l","a","t","i","o","n">>

\* the fixed texts of the messages that hold each word
TextsWith(word) ==
    IF word = CircuitOpenWord THEN {"Circuit Open: Upstream Unavailable"}
    ELSE IF word = RestrictedWord
    THEN {"' is physically inside the Restricted Beach Road Zone but has no Access Rule defined in portals.json. Please configure a Portal for this stop."}
    ELSE IF word = ViolationWord THEN {"Spatial Violation: Intersects "}
    ELSE {}

\* the characters of the name a message embeds (names are spelled by
\* character, the other pieces of a message are whole texts)
Spelled(msg) ==
    SelectSeq(msg, LAMBDA x : \/ x = " "
                              \/ \E i \in 1..Len(UpperAlpha) : x \in {UpperAlpha[i], LowerAlpha[i]})

\* word in msg, for str(e): in one of the fixed texts or in the name
InMessage(word, msg) ==
    \/ \E k \in 1..Len(msg) : msg[k] \in TextsWith(word)
    \/ IsSubstring(word, Spelled(msg))

\* get_safe_route's except branch: the status code for an exception of
\* get_optimized_route with message msg
ErrorCode(msg) ==
    IF InMessage(CircuitOpenWord, msg) THEN 503
    ELSE IF InMessage(RestrictedWord, msg) \/ InMessage(ViolationWord, msg) THEN 422
    ELSE 500

\* the kind of failure get_optimized_route ended with, by the statement that
\* raised it and the reason it carries
FailureKind(msg) ==
    IF Head(msg) = "CRITICAL CONFIG ERROR: Stop '" THEN "config"
    ELSE IF Head(msg) = "All strategies failed. Last error: "
    THEN IF Tail(msg) = CircuitOpenError.msg THEN "circuit"
         ELSE IF Head(Tail(msg)) = "Spatial Violation: Intersects " THEN "spatial"
         ELSE "other"
    ELSE "other"

\* get_optimized_route has just raised
RequestFailed ==
    /\ pc = "idle"
    /\ op.name \in {"request", "iterate", "http_return"}
    /\ ret.kind = "raise"

\* C25: the handler answers a failure of get_optimized_route by its kind: 422
\* for a configuration error (unreachable stop) and for a spatial violation,
\* 503 for circuit-open, 500 for every other exhaustion or failure, each kind
\* always with the same code.
C25_CodeByFailureKind ==
    RequestFailed =>
        ErrorCode(ret.msg) =
            CASE FailureKind(ret.msg) \in {"config", "spatial"} -> 422
              [] FailureKind(ret.msg) = "circuit"               -> 503
              [] OTHER                                          -> 500

-----------------------------------------------------------------------------
(* ConfigLoader (src/src/routing/config_loader.py) and an engine built on  *)
(* what it loaded.  A configuration file is [exists, parses, doc]: whether  *)
(* the path exists, whether open and json.load go through, and the          *)
(* document the file holds; a document is a function of its keys.  The      *)
(* engine built is given one operation: neither operation changes it.       *)

\* a zone under another rule, over the polygon of the beach zone
AdvisoryZone ==
    [id |-> "ZONE_SEAFRONT", name |-> <<"Sea Front">>,
     rule |-> "ADVISORY",
     geometry |-> << <<40, 40>>, <<40, 60>>, <<60, 60>>, <<60, 40>> >>]

\* what zones.json and portals.json can hold
ZonesDocuments ==
    { [zones |-> Zones],
      [zones |-> <<MarketZone, BeachZone>>],
      [zones |-> <<AdvisoryZone, MarketZone>>],
      [zones |-> <<>>] }
PortalsDocuments == { [portals |-> Portals] }

ConfigFiles(documents) ==
    { [exists |-> FALSE, parses |-> FALSE, doc |-> EmptyDict] }
    \cup { [exists |-> TRUE, parses |-> p, doc |-> d] :
               p \in BOOLEAN, d \in documents }

\* _load_json as it would be if it took what an unreadable file holds
load_json_Lenient(file) ==
    IF ~file.exists THEN EmptyDict ELSE file.doc

\* ConfigLoader._load_json: {} for a missing path and for any exception of
\* open or json.load
load_json(file) ==
    IF ~file.exists THEN EmptyDict
    ELSE IF ~file.parses THEN EmptyDict
    ELSE file.doc

\* self.zones.get('zones', []) and self.portals.get('portals', {})
get_zones(zones_doc) ==
    IF "zones" \in DOMAIN zones_doc THEN zones_doc.zones ELSE <<>>
get_portals(portals_doc) ==
    IF "portals" \in DOMAIN portals_doc THEN portals_doc.portals ELSE <<>>

\* a route through the beach zone and the market zone
RouteBothZones == [code |-> "Ok", routes |-> << [geometry |-> << <<50, 50>>, <<110, 50>> >>] >>]

\* the stop lists and the response bodies given to the engine built
BuiltStopLists == UNION {[1..n -> {Hub, Nor, Sou, Sea, Pier}] : n \in 1..MaxStops}
BuiltBodies ==
    {None, NoRouteBody, RouteClear, RouteThroughBeach, RouteCrossBeach,
     RouteThroughMarket, RouteBothZones}

\* ConfigLoader.__init__ and RoutingEngine.__init__ over the two files
Construct(zones_file, portals_file) ==
    /\ pc = "idle"
    /\ op.name = "init"
    /\ op' = [name    |-> "construct",
              zfile   |-> zones_file,
              pfile   |-> portals_file,
              zones   |-> get_zones(load_json(zones_file)),
              portals |-> get_portals(load_json(portals_file))]
    /\ pc' = "built"
    /\ ret' = None
    /\ UNCHANGED <<callerVars, now, cacheVars, clientVars, engineVars>>

\* the part of get_optimized_route before the loop, on the engine built
PrepareBuilt(stops) ==
    /\ pc = "built"
    /\ op.name = "construct"
    /\ LET sorted == SortStops(stops)
           guard  == validate_stops_access_with(op.zones, op.portals, sorted)
       IN  /\ op' = [op EXCEPT !.name = "prepare"]
           /\ ret' = guard
           /\ req' = sorted
           /\ strategies' = IF guard = None
                            THEN SelectStrategiesWith(op.zones, sorted) ELSE <<>>
    /\ UNCHANGED <<callerVars, now, cacheVars, clientVars, pc, idx, last_error,
                   start_time, failedAt, nreq>>

\* RouteValidator.validate on the engine built
ValidateBuilt(route_json) ==
    /\ pc = "built"
    /\ op.name = "construct"
    /\ LET verdict == validate_with(op.zones, route_json) IN
       ret' = [kind |-> "verdict", route_json |-> route_json,
               ok |-> verdict.ok, reason |-> verdict.reason]
    /\ op' = [op EXCEPT !.name = "validate"]
    /\ UNCHANGED <<callerVars, now, cacheVars, clientVars, pc, engineVars>>

NextLoad ==
    \/ \E zf \in ConfigFiles(ZonesDocuments), pf \in ConfigFiles(PortalsDocuments) :
          Construct(zf, pf)
    \/ \E stops \in BuiltStopLists : PrepareBuilt(stops)
    \/ \E route_json \in BuiltBodies : ValidateBuilt(route_json)

SpecLoad == Init /\ [][NextLoad]_vars

\* a file whose loading fails
LoadFails(file) == ~file.exists \/ ~file.parses

\* C26: a zones or portals file that fails to load gives an empty
\* configuration for it, the construction not raising; with no zone the
\* precheck rejects no stop, only PORTALS_ONLY is tried, and validate accepts
\* every response that holds a route.
C26_LoadFailureDisablesGeofencing ==
    pc = "built" =>
        /\ ret.kind # "raise" \/ op.name = "prepare"
        /\ LoadFails(op.zfile) => op.zones = <<>>
        /\ LoadFails(op.pfile) => op.portals = <<>>
        /\ op.zones = <<>> =>
              /\ op.name = "prepare" =>
                    ret = None /\ strategies = <<STRATEGY_PORTALS_ONLY>>
              /\ (op.name = "validate" /\ ret.route_json # None
                                       /\ ret.route_json.routes # <<>>) => ret.ok

\* the zones file does not parse; a route through the beach zone is accepted
C26_Witness ==
    /\ pc = "built"
    /\ op.name = "validate"
    /\ op.zfile = [exists |-> TRUE, parses |-> FALSE, doc |-> [zones |-> Zones]]
    /\ ret.route_json = RouteThroughBeach
    /\ ret.ok

\* the zones of the configuration that forbid the route: those with rule
\* FORBIDDEN_SEGMENT whose polygon holds a vertex of the route or has an edge
\* that a segment of the route crosses
ForbiddingZones(zones, geometry) ==
    {i \in 1..Len(zones) :
        /\ zones[i].rule = "FORBIDDEN_SEGMENT"
        /\ LET poly == zones[i].geometry
               pt(k) == <<geometry[k][2], geometry[k][1]>>
               edge(j) == <<poly[j], poly[(j % Len(poly)) + 1]>>
           IN  \/ \E k \in 1..Len(geometry) : point_in_polygon(pt(k), poly)
               \/ \E k \in 1..(Len(geometry) - 1), j \in 1..Len(poly) :
                     segments_intersect(pt(k), pt(k + 1), edge(j)[1], edge(j)[2])}

\* C27: validate returns invalid for a response without route data;
\* otherwise invalid with a reason naming the first zone, in configuration
\* order, of rule FORBIDDEN_SEGMENT whose polygon the route intersects, and
\* valid exactly when there is no such zone; zones of any other rule never
\* reject.
C27_FirstForbiddenZoneNamed ==
    (pc = "built" /\ op.name = "validate") =>
        IF ret.route_json = None \/ ret.route_json.routes = <<>>
        THEN ~ret.ok /\ ret.reason = <<"No route data">>
        ELSE LET hits == ForbiddingZones(op.zones, ret.route_json.routes[1].geometry)
             IN  /\ ret.ok <=> hits = {}
                 /\ ret.ok => ret.reason = <<"Valid">>
                 /\ ~ret.ok => ret.reason = <<"Spatial Violation: Intersects ">>
                                            \o op.zones[Min(hits)].name

\* the route goes through a zone of another rule and then through the market
\* zone: the market zone is named
C27_Witness ==
    /\ pc = "built"
    /\ op.name = "validate"
    /\ op.zones = <<AdvisoryZone, MarketZone>>
    /\ ret.route_json = RouteBothZones
    /\ ~ret.ok
    /\ ret.reason = <<"Spatial Violation: Intersects ", "Market Street">>

\* C28: within one request each strategy gets at most one cache lookup and at
\* most one upstream call: the lookup of strategy idx is followed by its call
\* or by the end of the strategy, the call by the end of the strategy, and
\* the loop only moves to the next of at most three strategies, so that a
\* request ends after at most three upstream calls.  With the single strategy
\* PORTALS_ONLY and the upstream answering 503, the request fails after the
\* one lookup and the one call.
C28_OneLookupOneCallPerStrategy ==
    /\ [](pc \in {"loop", "http"} =>
             /\ Len(strategies) <= 3
             /\ idx \in 1..Len(strategies))
    /\ [](pc = "loop" /\ idx = 1 => op.name = "request")
    /\ [][(pc = "loop" /\ op'.name = "iterate") =>
             \/ pc' = "http" /\ idx' = idx /\ strategies' = strategies
             \/ pc' = "loop" /\ idx' = idx + 1 /\ strategies' = strategies
             \/ pc' = "idle"]_vars
    /\ [][pc = "http" =>
             \/ pc' = "http" /\ idx' = idx /\ strategies' = strategies
             \/ pc' = "loop" /\ idx' = idx + 1 /\ strategies' = strategies
             \/ pc' = "idle"]_vars
    /\ [][(/\ pc = "http"
           /\ strategies = <<STRATEGY_PORTALS_ONLY>>
           /\ op'.name = "http_return"
           /\ op'.resp.status = 503) =>
             (/\ idx = 1
              /\ pc' = "idle"
              /\ ret' = Raised(<<"All strategies failed. Last error: ",
                                 "OSRM Server Error ", "503">>))]_vars

\* the first request, of one strategy, has failed on the one call made
C28_Witness ==
    /\ pc = "idle"
    /\ nreq = 1
    /\ op.name = "http_return"
    /\ op.resp.status = 503
    /\ failures = 1
    /\ cache = EmptyDict
    /\ ret = Raised(<<"All strategies failed. Last error: ",
                      "OSRM Server Error ", "503">>)

\* C29: the breaker leaves OPEN only for HALF_OPEN, on a call made after the
\* cooldown; it never goes from OPEN to CLOSED directly, also not when a call
\* that was in flight when the breaker opened completes successfully.
C29_OpenLeavesOnlyToHalfOpen ==
    [][state = STATE_OPEN =>
          \/ state' = STATE_OPEN
          \/ /\ state' = STATE_HALF_OPEN
             /\ now - last_failure_time > cooldown]_vars

-----------------------------------------------------------------------------
(* The cache with the history of its calls: op.used lists the entries of   *)
(* the cache by their latest use, a set or a get that hit, oldest first     *)

Used == IF "used" \in DOMAIN op THEN op.used ELSE <<>>

\* the history after key was used, and after the cache dropped entries
Touch(used, key, by) ==
    Append(SelectSeq(used, LAMBDA e : e.key # key), [key |-> key, by |-> by])
Remaining(used, keys) == SelectSeq(used, LAMBDA e : e.key \in keys)

\* cache.get(key, self.config.config_hash) by a caller that keeps the history
LruGet(key) ==
    /\ pc = "idle"
    /\ LET got == CacheGet(TheCache, key, ConfigHash, now)
           hit == got.ret # None /\ got.ret.kind # "raise"
       IN  /\ cache' = got.c.cache
           /\ order' = got.c.order
           /\ ret' = got.ret
           /\ op' = [name |-> "get", key |-> key, hit |-> hit, evicted |-> None,
                     used |-> Remaining(IF hit THEN Touch(Used, key, "get") ELSE Used,
                                        DOMAIN got.c.cache)]
    /\ UNCHANGED <<callerVars, now, clientVars, engineVars, pc>>

\* cache.set(key, value, config_hash, ttl) by a caller that keeps the history
LruSet(key, in) ==
    /\ pc = "idle"
    /\ LET put == CacheSet(TheCache, key, in[1], in[2], in[3], now) IN
       /\ cache' = put.c.cache
       /\ order' = put.c.order
       /\ op' = [name |-> "set", key |-> key, hit |-> FALSE, evicted |-> put.evicted,
                 used |-> Remaining(Touch(Used, key, "set"), DOMAIN put.c.cache)]
    /\ ret' = None
    /\ UNCHANGED <<callerVars, now, clientVars, engineVars, pc>>

NextLru ==
    \/ \E key \in CacheKeys : LruGet(key)
    \/ \E key \in CacheKeys, in \in SetInputs : LruSet(key, in)

SpecLru == Init /\ [][NextLru]_vars

\* C30: a set that takes the cache over its capacity evicts the entry whose
\* latest set or hit is the oldest, a hit counting as a use; the entry just
\* set is not the one evicted (the capacity being at least 1).
C30_EvictsLeastRecentlyUsed ==
    /\ [][op'.name = "set" =>
            LET others == SelectSeq(Used, LAMBDA e : e.key # op'.key) IN
            IF Len(others) + 1 > Capacity
            THEN /\ op'.evicted = others[1].key
                 /\ op'.evicted # op'.key
                 /\ op'.evicted \notin DOMAIN cache'
                 /\ op'.key \in DOMAIN cache'
            ELSE /\ op'.evicted = None
                 /\ op'.key \in DOMAIN cache']_vars
    /\ [][(op'.name = "get" /\ op'.hit) =>
            /\ op'.key \in DOMAIN cache'
            /\ order'[Len(order')] = op'.key]_vars
    /\ []({Used[i].key : i \in 1..Len(Used)} = DOMAIN cache)

\* a set has evicted an entry and left the one a hit had refreshed
C30_Witness ==
    /\ op.name = "set"
    /\ op.evicted # None
    /\ Len(op.used) = Capacity
    /\ op.used[1].by = "get"

\* C31: a get that finds the entry expired or stored under another config
\* hash removes it from the map and from the recency list and misses; the
\* key then stays out, every get for it missing whatever the hash, until it
\* is set again; a get for an absent key changes nothing.
C31_StaleGetRemoves ==
    /\ [][op'.name = "get" =>
            LET key == op'.key IN
            IF key \in DOMAIN cache
            THEN (now > cache[key].expiry \/ cache[key].hash # op'.hash) =>
                    /\ op'.removed
                    /\ ret' = None
                    /\ cache' = DictDel(cache, key)
                    /\ order' = SelectSeq(order, LAMBDA x : x # key)
            ELSE /\ ~op'.removed
                 /\ ret' = None
                 /\ cache' = cache
                 /\ order' = order]_vars
    /\ [][\A key \in CacheKeys :
            (key \notin DOMAIN cache /\ key \in DOMAIN cache') =>
                (op'.name = "set" /\ op'.key = key)]_vars
    /\ [](\A key \in CacheKeys : key \notin DOMAIN cache =>
            /\ ~InList(order, key)
            /\ \A h \in {ConfigHash, StaleHash} :
                  CacheGet(TheCache, key, h, now) = [c |-> TheCache, ret |-> None])

\* a get has removed an entry before its expiry: it was stored under another
\* config hash
C31_Witness ==
    /\ op.name = "get"
    /\ op.removed
    /\ now = 0
    /\ ret = None
    /\ op.key \notin DOMAIN cache

\* the via point of a strategy that has one
ViaOf(strategy) == IF strategy = STRATEGY_PLUS_CITY THEN PalayamVia ELSE BypassVia

\* list s with x put in after its first m elements
PutAfter(s, m, x) == SubSeq(s, 1, m) \o <<x>> \o SubSeq(s, m + 1, Len(s))

\* C32 as stated: PORTALS_PLUS_CITY and PORTALS_PLUS_HIGHWAY put their one
\* via point into the transformed list at index (length div 2), the other
\* coordinates keeping their order, PORTALS_ONLY puts nothing in, and for
\* every stop list the via point stands strictly between the first and the
\* last transformed coordinate.
C32_ViaStrictlyInside ==
    op.name = "inject" =>
        LET t == TransformFrom(req, 1)
            m == Len(t) \div 2
        IN  IF op.strategy = STRATEGY_PORTALS_ONLY THEN ret.coords = t
            ELSE /\ ret.coords = PutAfter(t, m, ViaOf(op.strategy))
                 /\ 1 <= m
                 /\ m < Len(t)

\* C32 amended: the index is max(1, length div 2); the via point stands
\* strictly between the first and the last transformed coordinate when there
\* are two or more of them, and behind the only one when there is one.
C32_ViaInsideFromTwoCoordinates ==
    op.name = "inject" =>
        LET t == TransformFrom(req, 1)
            m == IF Len(t) \div 2 >= 1 THEN Len(t) \div 2 ELSE 1
        IN  IF op.strategy = STRATEGY_PORTALS_ONLY THEN ret.coords = t
            ELSE /\ ret.coords = PutAfter(t, m, ViaOf(op.strategy))
                 /\ Len(t) >= 2 => (m = Len(t) \div 2 /\ 1 <= m /\ m < Len(t))
                 /\ Len(t) = 1 => ret.coords = <<t[1], ViaOf(op.strategy)>>

\* two stops around the beach zone, the bypass via point between them
C32_Witness ==
    /\ op.name = "inject"
    /\ op.strategy = STRATEGY_PLUS_HIGHWAY
    /\ req = <<Nor, Sou>>
    /\ ret.coords = << <<50, 70>>, BypassVia, <<50, 30>> >>

\* sorted is payload in latitude-descending order, stops of equal latitude
\* in the order they have in payload
IsStableSortOf(sorted, payload) ==
    /\ Len(sorted) = Len(payload)
    /\ \E p \in [1..Len(payload) -> 1..Len(payload)] :
          /\ \A i \in 1..Len(payload) : sorted[i] = payload[p[i]]
          /\ \A i, j \in 1..Len(payload) :
                i < j => \/ sorted[i].lat > sorted[j].lat
                         \/ sorted[i].lat = sorted[j].lat /\ p[i] < p[j]

\* the stops of a list that lie in the beach zone and match no portal
StoppedByGuard(stops) ==
    {i \in 1..Len(stops) :
        /\ MatchPortal(stops[i].name) = None
        /\ point_in_polygon(<<stops[i].lat, stops[i].lon>>, BeachZone.geometry)}

\* C33: get_optimized_route works on the stops in latitude-descending order,
\* stops of equal latitude in their input order: the precheck names the first
\* unreachable stop of that order, the cache key is made of that order and the
\* coordinates sent follow it, while the caller's list stays as it was given.
C33_SortedOnceUsedThroughout ==
    /\ op.name = "prepare" =>
          /\ IsStableSortOf(req, op.stops)
          /\ IF StoppedByGuard(req) = {} THEN ret = None
             ELSE /\ ret.kind = "raise"
                  /\ SubSeq(ret.msg, 2, Len(ret.msg) - 1)
                        = req[Min(StoppedByGuard(req))].name
    /\ op.name = "inject" =>
          /\ \A i \in 1..(Len(req) - 1) : req[i].lat >= req[i + 1].lat
          /\ op.cache_key = <<req, op.strategy, ConfigHash>>
          /\ LET out == WithoutVia(ret.coords, op.strategy) IN
             \A i \in 1..Len(req) :
                \A k \in (WidthBefore(req, i) + 1)..WidthBefore(req, i + 1) :
                    out[k] \in CoordsOf(req, i)

\* the caller gave the southern stop first and still has it first; the
\* engine works on the northern one first
C33_Witness ==
    /\ op.name = "prepare"
    /\ op.stops = <<Sea, Oval, Hub>>
    /\ req = <<Hub, Oval, Sea>>
    /\ ret.kind = "raise"
    /\ ret.msg[2] = "C"

\* C34: in every reachable state of the breaker, with concurrent callers
\* at any point of get_route, the state is OPEN or HALF_OPEN only if
\* failures >= failure_threshold and CLOSED only if failures <
\* failure_threshold.
C34_StateAgreesWithFailures ==
    /\ state \in {STATE_OPEN, STATE_HALF_OPEN} => failures >= failure_threshold
    /\ state = STATE_CLOSED => failures < failure_threshold

\* a response below 500 whose body parses
Parseable(resp) == resp.kind = "http" /\ resp.status < 500 /\ resp.json = "ok"

\* C35: every response with a status below 500 and a parseable body, a 4xx
\* included, leaves the breaker CLOSED with failures = 0; the failure that
\* follows such a response is the first of its run and, failure_threshold
\* being at least 2, does not open the breaker, so that 5xx responses
\* alternating with 4xx responses never open it.
C35_AnsweredCallResets ==
    /\ [][(op'.name = "get_route_return" /\ Parseable(op'.resp)) =>
             (state' = STATE_CLOSED /\ failures' = 0)]_vars
    /\ [][(op'.name = "get_route_return" /\ failures = 0) =>
             (/\ failures' <= 1
              /\ failure_threshold >= 2 => state' = STATE_CLOSED)]_vars

\* the trial call after the cooldown is answered 400 and closes the breaker
C35_Witness ==
    /\ op.name = "get_route_return"
    /\ op.was = STATE_HALF_OPEN
    /\ op.resp.status = 400
    /\ state = STATE_CLOSED
    /\ failures = 0

\* the pass about to run meets a negative entry for its strategy
NegativeHit ==
    /\ pc = "loop"
    /\ ~BudgetExceeded(now, start_time)
    /\ Live(CurrentKey)
    /\ cache[CurrentKey].value.kind = "error"

UnknownError == <<"Unknown Error">>

\* C36: a pass skipped on a negative cache hit records no reason and calls
\* nothing: last_error is still 'Unknown Error' only while every pass of the
\* request so far was such a skip; a request whose passes were all skipped
\* raises 'All strategies failed. Last error: Unknown Error', which the
\* handler answers with 500, while the pass that stored a spatial violation
\* for the last strategy ended its request with that reason, answered 422.
C36_SkippedRequestLosesReason ==
    /\ [][(/\ pc \in {"loop", "http"}
           /\ op'.name \in {"iterate", "http_return"}
           /\ pc' = "loop"
           /\ last_error' = UnknownError)
          => (/\ NegativeHit
              /\ last_error = UnknownError
              /\ UNCHANGED clientVars)]_vars
    /\ [][(/\ NegativeHit
           /\ op'.name = "iterate"
           /\ last_error = UnknownError
           /\ idx = Len(strategies))
          => (/\ ret' = Raised(<<"All strategies failed. Last error: ">> \o UnknownError)
              /\ ErrorCode(ret'.msg) = 500
              /\ Tail(ret'.msg) # cache[CurrentKey].value.error
              /\ UNCHANGED clientVars)]_vars
    /\ [][(/\ pc = "http"
           /\ op'.name = "http_return"
           /\ idx = Len(strategies)
           /\ CurrentKey \in DOMAIN cache'
           /\ cache'[CurrentKey].value.kind = "error"
           /\ Head(cache'[CurrentKey].value.error) = "Spatial Violation: Intersects ")
          => (/\ ret' = Raised(<<"All strategies failed. Last error: ">>
                               \o cache'[CurrentKey].value.error)
              /\ ErrorCode(ret'.msg) = 422)]_vars

\* C36 witness: the second request found the spatial violation of the first
\* in the cache, made no call and raised with 'Unknown Error'
C36_Witness ==
    /\ op.name = "iterate"
    /\ nreq = 2
    /\ ret = Raised(<<"All strategies failed. Last error: ", "Unknown Error">>)
    /\ ErrorCode(ret.msg) = 500
    /\ sem = SemPermits
    /\ failures = 0
    /\ \E k \in DOMAIN cache :
          /\ Live(k)
          /\ cache[k].value.kind = "error"
          /\ Head(cache[k].value.error) = "Spatial Violation: Intersects "

\* C37: a get_route call rejected because the breaker is OPEN leaves state,
\* failures and last_failure_time as they were (and takes no permit); the
\* time of the last failure changes only when an upstream call returns, so
\* that after any rejected calls the first call later than cooldown past the
\* last failure is let through.
C37_RejectedCallLeavesBreaker ==
    /\ [][(op'.name = "get_route" /\ pc = "idle" /\ ret' = CircuitOpenError) =>
             (/\ state = STATE_OPEN
              /\ UNCHANGED <<state, failures, last_failure_time, sem, streak>>)]_vars
    /\ [][last_failure_time' # last_failure_time =>
             op'.name = "get_route_return"]_vars
    /\ [][(/\ op'.name = "get_route"
           /\ pc = "idle"
           /\ state = STATE_OPEN
           /\ now - last_failure_time > cooldown) =>
             (pc' = "call" /\ state' = STATE_HALF_OPEN)]_vars

\* C37 witness: a call is rejected at the end of the cooldown, the breaker
\* still open with the failure time it had
C37_Witness ==
    /\ op.name = "get_route"
    /\ ret = CircuitOpenError
    /\ pc = "idle"
    /\ state = STATE_OPEN
    /\ failures = failure_threshold
    /\ last_failure_time = 30
    /\ now = 60

-----------------------------------------------------------------------------
(* point_in_polygon on its own: polygons of up to MaxVertices vertices on  *)
(* a grid, every sequence of vertices being a polygon (repeated vertices,  *)
(* edges that cross, no vertex at all), and points on and around the grid. *)

GridCoordinates  == 0..2
PointCoordinates == -1..3

Vertices == GridCoordinates \X GridCoordinates

Polygons == UNION {[1..n -> Vertices] : n \in 0..MaxVertices}

Points == PointCoordinates \X PointCoordinates

\* a polygon is given
InitGeometry ==
    /\ now = 0
    /\ cache = EmptyDict
    /\ order = <<>>
    /\ state = STATE_CLOSED
    /\ failures = 0
    /\ last_failure_time = 0
    /\ sem = SemPermits
    /\ pc = "idle"
    /\ op \in {[name |-> "polygon", polygon |-> polygon] : polygon \in Polygons}
    /\ ret = None
    /\ streak = 0
    /\ req = <<>>
    /\ strategies = <<>>
    /\ idx = 0
    /\ last_error = <<>>
    /\ start_time = 0
    /\ failedAt = EmptyDict
    /\ nreq = 0
    /\ waiting = 0
    /\ inflight = 0
    /\ th = [i \in Threads |-> IdleThread]
    /\ ncalls = 0

\* one call of point_in_polygon with the polygon given
PointInPolygon(point) ==
    /\ op.name = "polygon"
    /\ op' = [name    |-> "point_in_polygon",
              point   |-> point,
              polygon |-> op.polygon,
              bbox    |-> get_bbox(op.polygon)]
    /\ ret' = [kind |-> "inside", value |-> point_in_polygon(point, op.polygon)]
    /\ UNCHANGED <<pc, callerVars, now, cacheVars, clientVars, engineVars>>

NextGeometry == \E point \in Points : PointInPolygon(point)

SpecGeometry == InitGeometry /\ [][NextGeometry]_vars

\* below the minimum or above the maximum latitude or longitude of the box
StrictlyOutside(point, bbox) ==
    \/ point[1] < bbox[1] \/ point[1] > bbox[3]
    \/ point[2] < bbox[2] \/ point[2] > bbox[4]

-----------------------------------------------------------------------------
(* enrich_route_economically (src/src/route_profitability.py).  The stops  *)
(* of the model lie on one meridian, pos in units of 10 m along it, so     *)
(* that the haversine distance of two stops is the difference of their     *)
(* positions.  Demand is in hundredths of a passenger and money in         *)
(* millionths of a rupee, which makes the costs of the source exact.       *)

AVG_TICKET_PRICE_PER_BOARDING == 12
TIME_VALUE_PER_MIN == 5
DIESEL_PRICE == 9521        \* 95.21, in hundredths of a rupee per litre
MinimumGain == 10000000     \* 10 rupees
CorridorMargin == 556       \* 0.05 degrees of latitude
Infinity == 2000000000      \* float('inf')

\* The stops of the calls; A to D are those of the tests.  mult:
\* demand_multiplier in hundredths; pred: what the demand model predicts
\* for the stop, in hundredths.
\*   C  on the way from A to B, high demand
\*   D  outside the corridor of A and B, high demand
\*   M  half way from A to B
\*   G  on the way, the demand of C
\*   N  on the way, demand below one passenger, worth more than 10 rupees
\*   E  50 m past B, demand of one passenger, worth less than 10 rupees net
EnrichStops ==
    [A |-> [id |-> 1, name |-> "A", pos |-> 0,    mult |-> 100, pred |-> 1000],
     B |-> [id |-> 2, name |-> "B", pos |-> 1112, mult |-> 100, pred |-> 1000],
     C |-> [id |-> 3, name |-> "C", pos |-> 300,  mult |-> 500, pred |-> 1000],
     D |-> [id |-> 4, name |-> "D", pos |-> 1712, mult |-> 500, pred |-> 1000],
     M |-> [id |-> 5, name |-> "M", pos |-> 556,  mult |-> 100, pred |-> 1000],
     G |-> [id |-> 6, name |-> "G", pos |-> 700,  mult |-> 500, pred |-> 1000],
     N |-> [id |-> 7, name |-> "N", pos |-> 900,  mult |-> 6,   pred |-> 110],
     E |-> [id |-> 8, name |-> "E", pos |-> 1117, mult |-> 7,   pred |-> 130]]

Routes ==
    { <<EnrichStops.A>>,
      <<EnrichStops.A, EnrichStops.B>>,
      <<EnrichStops.A, EnrichStops.M, EnrichStops.B>>,
      <<EnrichStops.B, EnrichStops.A>> }

Pools ==
    LET pool == {EnrichStops[n] : n \in {"A", "C", "D", "G", "N", "E"}}
    IN  UNION {[1..n -> pool] : n \in 0..MaxPool}

calculate_distance(s1, s2) ==
    IF s1.pos >= s2.pos THEN s1.pos - s2.pos ELSE s2.pos - s1.pos

\* predict_passengers_for_stops(stops_list, conservative=True); has_model:
\* a demand model was loaded
predict_passengers_for_stops(stops_list, has_model) ==
    IF ~has_model \/ stops_list = <<>>
    THEN [i \in 1..Len(stops_list) |-> stops_list[i].mult * 15]
    ELSE [i \in 1..Len(stops_list) |->
             Max({0, (stops_list[i].pred * 8) \div 10})]

StopIds(route) == {route[i].id : i \in 1..Len(route)}

\* the stops of the pool that are not on the route and lie in its corridor
Candidates(final_route, all_stops_pool) ==
    LET lats    == {final_route[i].pos : i \in 1..Len(final_route)}
        min_lat == Min(lats) - CorridorMargin
        max_lat == Max(lats) + CorridorMargin
        keep(s) == /\ s.id \notin StopIds(final_route)
                   /\ min_lat <= s.pos
                   /\ s.pos <= max_lat
    IN  SelectSeq(all_stops_pool, keep)

\* candidate_map: the demand zipped last with each id
CandidateMap(candidates, candidate_demands) ==
    [id \in StopIds(candidates) |->
        candidate_demands[Max({k \in 1..Len(candidates) : candidates[k].id = id})]]

\* total_cost of putting cand between final_route[i] and final_route[i + 1]
DetourCost(final_route, cand, i) ==
    LET d1        == calculate_distance(final_route[i], cand)
        d2        == calculate_distance(cand, final_route[i + 1])
        d_orig    == calculate_distance(final_route[i], final_route[i + 1])
        detour    == (d1 + d2) - d_orig
        fuel_cost == detour * DIESEL_PRICE * 25
        time_cost == detour * TIME_VALUE_PER_MIN * 20000
    IN  fuel_cost + time_cost

\* local_best_detour_cost and local_best_idx after the first i positions
RECURSIVE LocalBest(_, _, _)
LocalBest(final_route, cand, i) ==
    IF i = 0 THEN [cost |-> Infinity, idx |-> -1]
    ELSE LET before     == LocalBest(final_route, cand, i - 1)
             total_cost == DetourCost(final_route, cand, i)
         IN  IF total_cost < before.cost
             THEN [cost |-> total_cost, idx |-> i]
             ELSE before

\* best_profit_gain, best_candidate (its place in candidates, 0 for None)
\* and best_insert_idx after the first k candidates
RECURSIVE BestUpTo(_, _, _, _, _)
BestUpTo(final_route, current_ids, candidates, candidate_map, k) ==
    IF k = 0 THEN [gain |-> 0, cand |-> 0, idx |-> -1]
    ELSE LET before == BestUpTo(final_route, current_ids, candidates,
                                candidate_map, k - 1)
             cand   == candidates[k]
             pred_demand  == candidate_map[cand.id]
             revenue_gain == pred_demand * AVG_TICKET_PRICE_PER_BOARDING * 10000
             local  == LocalBest(final_route, cand, Len(final_route) - 1)
             net_profit_gain == revenue_gain - local.cost
         IN  IF cand.id \in current_ids THEN before
             ELSE IF pred_demand < 100 THEN before
             ELSE IF net_profit_gain > before.gain /\ net_profit_gain > 0
             THEN [gain |-> net_profit_gain, cand |-> k, idx |-> local.idx]
             ELSE before

\* the test that lets a round insert as it would be with any gain accepted
ProfitableEnough_AnyGain(best) == best.cand # 0 /\ best.gain > 0

\* `if best_candidate and best_profit_gain > 10`
ProfitableEnough(best) == best.cand # 0 /\ best.gain > MinimumGain

\* a call of enrich_route_economically is made
InitEnrich ==
    /\ now = 0
    /\ cache = EmptyDict
    /\ order = <<>>
    /\ state = STATE_CLOSED
    /\ failures = 0
    /\ last_failure_time = 0
    /\ sem = SemPermits
    /\ pc = "enrich"
    /\ op \in {[name |-> "call", current_stops |-> r, all_stops_pool |-> p,
               max_additions |-> n, has_model |-> h,
               final_route |-> r, current_ids |-> {}, candidates |-> <<>>,
               candidate_map |-> <<>>, rounds |-> 0] :
                  r \in Routes, p \in Pools, n \in 0..MaxAdditions, h \in BOOLEAN}
    /\ ret = None
    /\ streak = 0
    /\ req = <<>>
    /\ strategies = <<>>
    /\ idx = 0
    /\ last_error = <<>>
    /\ start_time = 0
    /\ failedAt = EmptyDict
    /\ nreq = 0
    /\ waiting = 0
    /\ inflight = 0
    /\ th = [i \in Threads |-> IdleThread]
    /\ ncalls = 0

\* `return final_route`
EnrichReturn(o) ==
    /\ op' = [o EXCEPT !.name = "return"]
    /\ ret' = [kind |-> "route", data |-> o.final_route]
    /\ pc' = "idle"

\* enrich_route_economically up to the insertion loop
Enrich ==
    /\ pc = "enrich"
    /\ LET final_route == op.current_stops
           candidates  == Candidates(final_route, op.all_stops_pool)
           demands     == predict_passengers_for_stops(candidates, op.has_model)
       IN  IF op.all_stops_pool = <<>> \/ Len(final_route) < 2
           THEN EnrichReturn(op)
           ELSE IF candidates = <<>>
           THEN EnrichReturn([op EXCEPT !.current_ids = StopIds(final_route)])
           ELSE /\ op' = [op EXCEPT !.name = "enrich",
                                    !.current_ids = StopIds(final_route),
                                    !.candidates = candidates,
                                    !.candidate_map = CandidateMap(candidates, demands)]
                /\ pc' = "greedy"
                /\ ret' = ret
    /\ UNCHANGED <<callerVars, now, cacheVars, clientVars, engineVars>>

\* one pass of the insertion loop
GreedyRound ==
    /\ pc = "greedy"
    /\ IF op.rounds >= op.max_additions
       THEN EnrichReturn(op)
       ELSE LET best == BestUpTo(op.final_route, op.current_ids, op.candidates,
                                 op.candidate_map, Len(op.candidates))
            IN  IF ProfitableEnough(best)
                THEN /\ op' = [op EXCEPT
                                 !.name = "round",
                                 !.final_route = ListInsert(op.final_route, best.idx,
                                                            op.candidates[best.cand]),
                                 !.current_ids = @ \cup {op.candidates[best.cand].id},
                                 !.rounds = @ + 1]
                     /\ pc' = "greedy"
                     /\ ret' = ret
                ELSE EnrichReturn(op)
    /\ UNCHANGED <<callerVars, now, cacheVars, clientVars, engineVars>>

NextEnrich == Enrich \/ GreedyRound

SpecEnrich == InitEnrich /\ [][NextEnrich]_vars

\* revenue gain minus cheapest detour cost of the k-th candidate on route
NetGain(route, k) ==
    LET cand == op.candidates[k] IN
    op.candidate_map[cand.id] * AVG_TICKET_PRICE_PER_BOARDING * 10000
      - Min({DetourCost(route, cand, i) : i \in 1..(Len(route) - 1)})

\* the candidates not yet on the route; considered: those of a predicted
\* demand of at least one passenger only
NotYetIncluded(considered) ==
    {k \in 1..Len(op.candidates) :
        /\ op.candidates[k].id \notin op.current_ids
        /\ considered => op.candidate_map[op.candidates[k].id] >= 100}

\* a round of the loop does what is stated of it
RoundAsStated(considered) ==
    (pc = "greedy" /\ op.rounds < op.max_additions) =>
        LET route   == op.final_route
            open    == NotYetIncluded(considered)
            winners == {k \in open : \A j \in open : NetGain(route, k) >= NetGain(route, j)}
        IN  IF \E k \in open : NetGain(route, k) > MinimumGain
            THEN /\ pc' = "greedy"
                 /\ \E k \in winners : \E p \in 1..(Len(route) - 1) :
                       /\ \A i \in 1..(Len(route) - 1) :
                             DetourCost(route, op.candidates[k], p)
                                <= DetourCost(route, op.candidates[k], i)
                       /\ op'.final_route =
                             SubSeq(route, 1, p) \o <<op.candidates[k]>>
                                \o SubSeq(route, p + 1, Len(route))
            ELSE /\ pc' = "idle"
                 /\ ret'.data = route

\* what is stated of the route returned
ReturnAsStated(considered) ==
    (pc = "idle" /\ op.name = "return") =>
        LET given    == op.current_stops
            route    == ret.data
            on(s)    == s.id \in StopIds(given)
            off(s)   == s.id \notin StopIds(given)
            added    == SelectSeq(route, off)
            corridor == Candidates(given, op.all_stops_pool)
            demands  == predict_passengers_for_stops(corridor, op.has_model)
            gain(k)  == demands[k] * AVG_TICKET_PRICE_PER_BOARDING * 10000
                          - Min({DetourCost(given, corridor[k], i) :
                                    i \in 1..(Len(given) - 1)})
        IN  /\ SelectSeq(route, on) = given
            /\ Len(added) <= op.max_additions
            /\ \A i \in 1..Len(added) :
                  /\ \E j \in 1..Len(op.all_stops_pool) : op.all_stops_pool[j] = added[i]
                  /\ \A j \in 1..Len(added) : added[j].id = added[i].id => j = i
            /\ route[1] = given[1]
            /\ route[Len(route)] = given[Len(given)]
            /\ (\/ Len(given) < 2
                \/ \A k \in 1..Len(corridor) :
                      (considered => demands[k] >= 100) => gain(k) <= MinimumGain)
                  => route = given

\* C39 as stated: in each round the candidate (a stop of the pool within
\* the corridor of the route) of the largest net gain among those not yet
\* included is inserted at its cheapest-detour position if and only if that
\* gain exceeds 10, and otherwise the loop stops; at most max_additions
\* stops are added, none twice, the given stops keep their order, the first
\* and the last stay, and the route is returned as given when no
\* candidate's gain exceeds 10.
C39_GreedyByGain ==
    /\ [][RoundAsStated(FALSE)]_vars
    /\ []ReturnAsStated(FALSE)

\* C39 amended: the same with the candidates of a predicted demand below
\* one passenger left out of every round: the largest net gain is taken
\* among the not yet included candidates of a predicted demand of at least
\* 1, and the route is returned as given when none of these gains more
\* than 10.
C39_GreedyByGainAboveNoise ==
    /\ [][RoundAsStated(TRUE)]_vars
    /\ []ReturnAsStated(TRUE)

\* C39 witness: two rounds put C and G between A and B, and N, worth more
\* than 10 rupees with less than one passenger, was left out
C39_Witness ==
    /\ pc = "idle"
    /\ op.name = "return"
    /\ op.current_stops = <<EnrichStops.A, EnrichStops.B>>
    /\ op.all_stops_pool = <<EnrichStops.N, EnrichStops.G, EnrichStops.C>>
    /\ op.max_additions = 2
    /\ ret.data = <<EnrichStops.A, EnrichStops.C, EnrichStops.G, EnrichStops.B>>

====
